---- MODULE Spec2Model ----
(***************************************************************************)
(* Model of the crop-record manager: CultureController (validation, row    *)
(* count, input quantities, record construction), the R bridge             *)
(* (services/r_integration.py) and MenuController (the stored record       *)
(* collection with its API and CLI operations).                            *)
(*                                                                         *)
(* Number representation.  Python floats are modelled by exact fixed-point *)
(* integers; inf/nan and rounding error are outside the model:             *)
(*   area                 hectares                                         *)
(*   espacamento          units of 1/SpacingScale metre (0.05 m)           *)
(*   dosagem_herbicida    units of 1/DoseScale L/ha   (0.1 L/ha)           *)
(*   quantidade_herbicida units of 1/DoseScale L                           *)
(*   comprimento_linha, metros_lineares_total                              *)
(*                        units of 1/LengthScale metre (0.1 m), truncated  *)
(* A Python dict is a function whose DOMAIN is the set of keys present.    *)
(* Strings are written without their accents (medio for the key of the     *)
(* medium cycle, transgenica, Cana-de-Acucar).                             *)
(***************************************************************************)
EXTENDS Integers, Sequences, FiniteSets, TLC

(* data:     MenuController.data, the stored collection (a sequence of    *)
(*           dicts; position i here is Python's index i - 1)              *)
(* last:     the last operation with what it returned (status, index,     *)
(*           calls of the statistics engine, the fields it addressed)     *)
(* frontend: the entry point that owns the controller: "web_api", "main"  *)
(*           or, for direct calls of CultureController, "library"         *)
VARIABLES data, last, frontend

vars == <<data, last, frontend>>

(* ------------------------------------------------------------------ *)
(* Python dict helpers                                                  *)
(* ------------------------------------------------------------------ *)
EmptyDict == [k \in {} |-> 0]

Has(d, k) == k \in DOMAIN d

Get(d, k, default) == IF k \in DOMAIN d THEN d[k] ELSE default

Put(d, k, v) == (k :> v) @@ d

(* None and an empty dict are both falsy *)
Truthy(d) == DOMAIN d # {}

(* ------------------------------------------------------------------ *)
(* Scales of the fixed-point representation                             *)
(* ------------------------------------------------------------------ *)
SpacingScale == 20

DoseScale == 10

LengthScale == 10

(* None in a "max" entry of a table; 0 is falsy in Python as None is *)
NoMax == 0

(* None where a string is expected; falsy as the empty string is *)
PyNone == "<None>"

(* str.lower() on the sub-type strings and crop names the model uses *)
Lower(s) ==
    CASE s = "LONGO" -> "longo"
      [] s = "Soja" -> "soja"
      [] s = "Cana-de-Acucar" -> "cana-de-acucar"
      [] s = "Medio" -> "medio"
      [] s = "Transgenica" -> "transgenica"
      [] s = "CONVENCIONAL" -> "convencional"
      [] OTHER -> s

(* ------------------------------------------------------------------ *)
(* Recommendation tables                                                *)
(* ------------------------------------------------------------------ *)
SUGARCANE_RECOMMENDATIONS ==
    [ curto |->
        [ espacamento |-> [min |-> 28, max |-> 30, ideal |-> 29],
          area        |-> [min |-> 5, max |-> 10, ideal |-> 8],
          duracao     |-> "8-10",
          irrigacao   |-> "Gotejamento" ],
      medio |->
        [ espacamento |-> [min |-> 30, max |-> 32, ideal |-> 31],
          area        |-> [min |-> 10, max |-> 20, ideal |-> 15],
          duracao     |-> "12-14",
          irrigacao   |-> "Aspersao convencional ou pivo central" ],
      longo |->
        [ espacamento |-> [min |-> 32, max |-> 36, ideal |-> 34],
          area        |-> [min |-> 20, max |-> NoMax, ideal |-> 30],
          duracao     |-> "16-18",
          irrigacao   |-> "Aspersao de maior alcance" ] ]

SOYBEAN_RECOMMENDATIONS ==
    [ convencional |->
        [ espacamento |-> [min |-> 8, max |-> 10, ideal |-> 9],
          area        |-> [min |-> 5, max |-> 100, ideal |-> 50],
          duracao     |-> "4-5",
          irrigacao   |-> "Aspersao convencional" ],
      transgenica |->
        [ espacamento |-> [min |-> 8, max |-> 12, ideal |-> 9],
          area        |-> [min |-> 10, max |-> 300, ideal |-> 80],
          duracao     |-> "4-5",
          irrigacao   |-> "Gotejamento ou aspersao" ] ]

(* ------------------------------------------------------------------ *)
(* ParameterValidator                                                   *)
(* ------------------------------------------------------------------ *)
(* key normalisation: lower-case, crop default when empty or unknown *)
(* the same without str.lower(): the lookup is case-sensitive *)
NormalizeKeyCaseSensitive(table, key, default) ==
    LET k == IF key \notin {"", PyNone} THEN key ELSE default
    IN  IF k \in DOMAIN table THEN k ELSE default

NormalizeKey(table, key, default) ==
    LET k == IF key \notin {"", PyNone} THEN Lower(key) ELSE default
    IN  IF k \in DOMAIN table THEN k ELSE default

(* the same with the bounds themselves outside the interval *)
SpacingStatusExclusive(rec, espacamento) ==
    IF espacamento <= rec.espacamento.min THEN "abaixo"
    ELSE IF espacamento >= rec.espacamento.max THEN "acima"
    ELSE "adequado"

(* status of the spacing against the profile's interval *)
SpacingStatus(rec, espacamento) ==
    IF espacamento < rec.espacamento.min THEN "abaixo"
    ELSE IF espacamento > rec.espacamento.max THEN "acima"
    ELSE "adequado"

(* the same reading a missing maximum as the number 0 *)
AreaStatusAlwaysBounded(rec, area) ==
    IF area < rec.area.min THEN "abaixo"
    ELSE IF area > rec.area.max THEN "acima"
    ELSE "adequada"

(* status of the area; a profile without a maximum is never exceeded *)
AreaStatus(rec, area) ==
    IF area < rec.area.min THEN "abaixo"
    ELSE IF rec.area.max # NoMax /\ area > rec.area.max THEN "acima"
    ELSE "adequada"

(* the report; a message is <<kind, bound named in it, sub-type named>> *)
BuildReport(table, key, area, espacamento, with_irrigation) ==
    LET rec == table[key]
        espacamento_status == SpacingStatus(rec, espacamento)
        espacamento_msg ==
            IF espacamento_status = "abaixo"
            THEN <<"abaixo do minimo", rec.espacamento.min, key>>
            ELSE IF espacamento_status = "acima"
            THEN <<"acima do maximo", rec.espacamento.max, key>>
            ELSE <<"dentro do intervalo", 0, "">>
        area_status == AreaStatus(rec, area)
        area_msg ==
            IF area_status = "abaixo"
            THEN <<"abaixo do minimo", rec.area.min, key>>
            ELSE IF area_status = "acima"
            THEN <<"acima do maximo", rec.area.max, key>>
            ELSE <<"dentro do intervalo", 0, "">>
        irrigacao_msg ==
            IF with_irrigation
            THEN <<"sistema recomendado", rec.irrigacao, "">>
            ELSE <<"irrigacao recomendada", rec.irrigacao, key>>
    IN  [ info        |-> [duracao |-> rec.duracao],
          espacamento |-> [ status |-> espacamento_status,
                            mensagem |-> espacamento_msg,
                            recomendado |-> rec.espacamento ],
          area        |-> [ status |-> area_status,
                            mensagem |-> area_msg,
                            recomendado |-> rec.area ],
          irrigacao   |-> [ ativa |-> with_irrigation,
                            mensagem |-> irrigacao_msg,
                            sistema |-> rec.irrigacao ] ]

validate_sugarcane_parameters(area, espacamento, ciclo, with_irrigation) ==
    BuildReport(SUGARCANE_RECOMMENDATIONS,
                NormalizeKey(SUGARCANE_RECOMMENDATIONS, ciclo, "medio"),
                area, espacamento, with_irrigation)

validate_soybean_parameters(area, espacamento, variedade, with_irrigation) ==
    BuildReport(SOYBEAN_RECOMMENDATIONS,
                NormalizeKey(SOYBEAN_RECOMMENDATIONS, variedade, "convencional"),
                area, espacamento, with_irrigation)

(* ------------------------------------------------------------------ *)
(* RowCountEngine                                                       *)
(* ------------------------------------------------------------------ *)
(* Newton's iteration from above: x decreases to floor(sqrt(n)) *)
RECURSIVE SqrtIter(_, _)
SqrtIter(n, x) ==
    IF x = 0 THEN 0
    ELSE LET y == (x + n \div x) \div 2
         IN  IF y >= x THEN x ELSE SqrtIter(n, y)

(* floor(math.sqrt(n)) for 0 <= n < 2^31; the start is above the root *)
ISqrt(n) ==
    SqrtIter(n, IF n < 1048576 THEN 1024
                ELSE IF n < 67108864 THEN 8192 ELSE 46341)

(* a result: the value, or the exception the call raises *)
Ok(v) == [raised |-> "None", v |-> v]

Raise(e) == [raised |-> e, v |-> 0]

(* the same without the conversion of hectares to square metres *)
_calculate_square_strategy_in_hectares(area, espacamento) ==
    IF area < 0 THEN Raise("ValueError")
    ELSE Ok(ISqrt(area * SpacingScale * SpacingScale) \div espacamento)

(* int(sqrt(area * 10000) / espacamento); math.sqrt raises ValueError *)
(* on a negative argument                                              *)
_calculate_square_strategy(area, espacamento) ==
    LET area_m2 == area * 10000
    IN  IF area_m2 < 0 THEN Raise("ValueError")
        ELSE Ok(ISqrt(area_m2 * SpacingScale * SpacingScale) \div espacamento)

(* the same with the rows laid along the length, sqrt(area * 1.5) *)
_calculate_rectangular_strategy_by_length(area, espacamento) ==
    LET area_m2 == area * 10000
    IN  IF area_m2 < 0 THEN Raise("ValueError")
        ELSE Ok(ISqrt((area_m2 * SpacingScale * SpacingScale * 3) \div 2)
                    \div espacamento)

(* int(sqrt(area * 10000 / 1.5) / espacamento) *)
_calculate_rectangular_strategy(area, espacamento) ==
    LET area_m2 == area * 10000
    IN  IF area_m2 < 0 THEN Raise("ValueError")
        ELSE Ok(ISqrt((area_m2 * SpacingScale * SpacingScale * 2) \div 3)
                    \div espacamento)

(* the same with 'retangular' as the strategy of an unknown name *)
calculate_lines_by_strategy_default_rectangular(strategy, area, espacamento) ==
    LET s == IF strategy \in {"quadrado", "retangular"} THEN strategy
             ELSE "retangular"
        e == IF espacamento <= 0 THEN 1 * SpacingScale ELSE espacamento
    IN  IF s = "quadrado" THEN _calculate_square_strategy(area, e)
        ELSE _calculate_rectangular_strategy(area, e)

calculate_lines_by_strategy(strategy, area, espacamento) ==
    LET s == IF strategy \in {"quadrado", "retangular"} THEN strategy
             ELSE "quadrado"
        e == IF espacamento <= 0 THEN 1 * SpacingScale ELSE espacamento
    IN  IF s = "quadrado" THEN _calculate_square_strategy(area, e)
        ELSE _calculate_rectangular_strategy(area, e)

calculate_lines(culture_data) ==
    LET strategy == Get(culture_data, "strategy", "quadrado")
        area == Get(culture_data, "area", 0)
        espacamento == Get(culture_data, "espacamento", 0)
    IN  IF espacamento <= 0 THEN Raise("ValueError")
        ELSE calculate_lines_by_strategy(strategy, area, espacamento)

(* ------------------------------------------------------------------ *)
(* InputQuantityCalculator                                              *)
(* ------------------------------------------------------------------ *)
_calculate_inputs(culture_data) ==
    LET area == Get(culture_data, "area", 0)
        d1 == Put(culture_data, "quantidade_herbicida",
                  area * Get(culture_data, "dosagem_herbicida", 0))
        d2 == Put(d1, "quantidade_fertilizante",
                  area * Get(culture_data, "dosagem_fertilizante", 0))
        linhas == Get(culture_data, "linhas_calculadas", 0)
        espacamento == Get(culture_data, "espacamento", 0)
        comprimento_linha ==
            (area * 10000 * SpacingScale * LengthScale) \div (linhas * espacamento)
    IN  IF linhas > 0 /\ espacamento > 0
        THEN Put(Put(d2, "comprimento_linha", comprimento_linha),
                 "metros_lineares_total", linhas * comprimento_linha)
        ELSE d2

(* ------------------------------------------------------------------ *)
(* R bridge (services/r_integration.py)                                 *)
(* ------------------------------------------------------------------ *)
(* what the external process does in one call *)
ROutcomes ==
    {"script_missing", "nonzero_exit", "timeout", "bad_json", "empty_output",
     "json_plain", "json_summary", "json_analysis"}

(* the outcomes the spec calls a failure of the statistics engine *)
RFailures ==
    {"script_missing", "nonzero_exit", "timeout", "bad_json", "empty_output"}

(* documents the engine prints on success *)
RDocument(r) ==
    CASE r = "json_summary" ->
            [ status |-> "success",
              input_summary |-> [area |-> [mean |-> 15, std_dev |-> 0, n |-> 1]] ]
      [] r = "json_analysis" ->
            [ status |-> "success",
              statistical_analysis |->
                  [ area_outliers |-> [n_outliers |-> 1],
                    area_trend |-> [trend |-> "estavel"] ] ]
      [] OTHER -> [status |-> "success"]

_validate_data(d) == TRUE

(* the second definition of _execute_r_script is the one in effect *)
_execute_r_script(r) ==
    CASE r = "script_missing" -> [raised |-> "FileNotFoundError", v |-> EmptyDict]
      [] r = "nonzero_exit"   -> [raised |-> "RExecutionError", v |-> EmptyDict]
      [] r = "timeout"        -> [raised |-> "RExecutionError", v |-> EmptyDict]
      [] r = "bad_json"       -> [raised |-> "RExecutionError", v |-> EmptyDict]
      [] r = "empty_output"   ->
            Ok([ status |-> "warning",
                 message |-> "Nenhum resultado obtido do R" ])
      [] OTHER                -> Ok(RDocument(r))

(* None (EmptyDict) on every exception *)
send_to_r_for_analysis(d, r) ==
    IF ~_validate_data(d) THEN EmptyDict
    ELSE LET res == _execute_r_script(r)
         IN  IF res.raised # "None" THEN EmptyDict ELSE res.v

(* the statistics of input_summary, formatted for the frontend *)
FormatStats(summary) ==
    [ f \in DOMAIN summary |->
        [ media |-> summary[f].mean,
          desvio_padrao |-> summary[f].std_dev,
          tamanho_amostra |-> summary[f].n ] ]

(* lines 255-339 of create_culture: attach the enrichment fields *)
AttachAnalysis(culture_data, r_analysis) ==
    IF ~Truthy(r_analysis) THEN culture_data
    ELSE
      LET d1 == Put(culture_data, "analise_estatistica", r_analysis)
          d2 == IF Has(r_analysis, "input_summary")
                   /\ Truthy(r_analysis.input_summary)
                THEN Put(Put(d1, "estatisticas_formatadas",
                             FormatStats(r_analysis.input_summary)),
                         "explicacoes_estatisticas", "explicacoes")
                ELSE d1
          sa == Get(r_analysis, "statistical_analysis", EmptyDict)
          d3 == IF Has(sa, "area_outliers") /\ sa.area_outliers.n_outliers > 0
                THEN Put(d2, "outliers_detectados",
                         [area |-> [quantidade |-> sa.area_outliers.n_outliers]])
                ELSE d2
          d4 == IF Has(sa, "area_trend")
                THEN Put(d3, "analise_tendencia",
                         [area |-> [tendencia |-> sa.area_trend.trend]])
                ELSE d3
      IN  d4

(* the keys create_culture derives from the R document *)
EnrichmentKeys ==
    {"analise_estatistica", "estatisticas_formatadas", "explicacoes_estatisticas",
     "outliers_detectados", "analise_tendencia"}

(* ------------------------------------------------------------------ *)
(* CultureRecordBuilder: CultureController.create_culture               *)
(* ------------------------------------------------------------------ *)
(* kwargs.get(name, default): Absent stands for a missing keyword *)
Absent == "<absent>"

KwGet(kw, default) == IF kw = Absent THEN default ELSE kw

(* the record before the row count: lines 195-240 *)
BaseRecord(culture_type, area, espacamento, with_irrigation, kw) ==
    LET base == [ area |-> area, espacamento |-> espacamento,
                  irrigacao |-> with_irrigation ]
    IN  IF culture_type = 1
        THEN LET variedade == KwGet(kw, "convencional")
             IN  [ tipo |-> "Soja", variedade |-> variedade,
                   strategy |-> "quadrado",
                   recomendacoes |->
                       validate_soybean_parameters(area, espacamento,
                                                   variedade, with_irrigation),
                   dosagem_herbicida |-> 25,
                   dosagem_fertilizante |-> 300 ] @@ base
        ELSE LET ciclo == KwGet(kw, "medio")
             IN  [ tipo |-> "Cana-de-Acucar", ciclo |-> ciclo,
                   strategy |-> "retangular",
                   recomendacoes |->
                       validate_sugarcane_parameters(area, espacamento,
                                                     ciclo, with_irrigation),
                   dosagem_herbicida |-> 30,
                   dosagem_fertilizante |-> 400 ] @@ base

(* area * 10000 * 0.8 litres *)
WaterConsumption(area) == (area * 10000 * 8) \div 10

(* a variant that refuses negative numbers only *)
InvalidArgumentsNegativeOnly(culture_type, area, espacamento) ==
    \/ area < 0
    \/ espacamento < 0
    \/ culture_type \notin {1, 2}

(* lines 188-193 and the else branch of lines 238-240: the arguments on *)
(* which the method raises ValueError                                   *)
InvalidArguments(culture_type, area, espacamento) ==
    \/ area <= 0
    \/ espacamento <= 0
    \/ culture_type \notin {1, 2}

(* a variant that calls the statistics engine before the water *)
(* consumption is written                                       *)
AnalysisInputBeforeWater(d1, with_irrigation, area) == d1

(* lines 249-258: the record as send_to_r_for_analysis receives it, the *)
(* water consumption written when irrigation is enabled                 *)
AnalysisInput(d1, with_irrigation, area) ==
    IF with_irrigation
    THEN Put(d1, "consumo_agua", WaterConsumption(area))
    ELSE d1

(* the whole method: the record, or the exception raised; rcalls counts *)
(* the calls of send_to_r_for_analysis, sent is the record it received  *)
create_culture(culture_type, area, espacamento, with_irrigation, kw, r) ==
    IF InvalidArguments(culture_type, area, espacamento)
    THEN [raised |-> "ValueError", v |-> EmptyDict, rcalls |-> 0,
          sent |-> EmptyDict]
    ELSE
      LET d0 == BaseRecord(culture_type, area, espacamento, with_irrigation, kw)
          linhas == calculate_lines_by_strategy(d0.strategy, area, espacamento)
          d1 == _calculate_inputs(Put(d0, "linhas_calculadas", linhas.v))
          d2 == AnalysisInput(d1, with_irrigation, area)
          d3 == AttachAnalysis(d2, send_to_r_for_analysis(d2, r))
      IN  IF linhas.raised # "None"
          THEN [raised |-> linhas.raised, v |-> EmptyDict, rcalls |-> 0,
                sent |-> EmptyDict]
          ELSE [raised |-> "None", v |-> d3, rcalls |-> 1, sent |-> d2]

(* ------------------------------------------------------------------ *)
(* Direct calls of CultureController.create_culture                     *)
(* ------------------------------------------------------------------ *)
CultureTypes == {0, 1, 2, 3}

AreaValues == {-2, 0, 3, 15, 150}

SpacingValues == {-20, 0, 9, 30, 36, 4000}

SubTypeValues ==
    {Absent, "", "curto", "medio", "LONGO", "convencional", "Transgenica", "xyz"}

NoCall == [op |-> "none"]

(* a pending call with its arguments drawn *)
InitCreate ==
    /\ data = << >>
    /\ frontend = "library"
    /\ \E culture_type \in CultureTypes, area \in AreaValues,
          espacamento \in SpacingValues, with_irrigation \in BOOLEAN,
          kw \in SubTypeValues, r \in ROutcomes :
            last = [ op |-> "call_create_culture",
                     culture_type |-> culture_type,
                     area |-> area,
                     espacamento |-> espacamento,
                     with_irrigation |-> with_irrigation,
                     kw |-> kw,
                     r |-> r ]

(* the call returns or raises *)
CallCreateCulture ==
    /\ last.op = "call_create_culture"
    /\ LET res == create_culture(last.culture_type, last.area, last.espacamento,
                                 last.with_irrigation, last.kw, last.r)
       IN  last' = [ op |-> "create_culture",
                     culture_type |-> last.culture_type,
                     area |-> last.area,
                     espacamento |-> last.espacamento,
                     with_irrigation |-> last.with_irrigation,
                     kw |-> last.kw,
                     r |-> last.r,
                     raised |-> res.raised,
                     rcalls |-> res.rcalls,
                     sent |-> res.sent,
                     v |-> res.v ]
    /\ UNCHANGED <<data, frontend>>

NextCreate == CallCreateCulture

SpecCreate == InitCreate /\ [][NextCreate]_vars

(* ------------------------------------------------------------------ *)
(* MenuController: parsing of request and console input                 *)
(* ------------------------------------------------------------------ *)
(* int(s) on the strings the model uses; any other string raises ValueError *)
ParseInt(s) ==
    CASE s = "0" -> Ok(0)
      [] s = "1" -> Ok(1)
      [] s = "2" -> Ok(2)
      [] s = "3" -> Ok(3)
      [] s = "4" -> Ok(4)
      [] s = "-1" -> Ok(-1)
      [] OTHER -> Raise("ValueError")

(* float(s) of an area, in hectares *)
ParseArea(s) ==
    CASE s = "0" -> Ok(0)
      [] s = "3" -> Ok(3)
      [] s = "15" -> Ok(15)
      [] s = "-2" -> Ok(-2)
      [] OTHER -> Raise("ValueError")

(* float(s) of a spacing, in units of 1/SpacingScale metre *)
ParseSpacing(s) ==
    CASE s = "0" -> Ok(0)
      [] s = "1.5" -> Ok(30)
      [] s = "200" -> Ok(4000)
      [] s = "-1" -> Ok(-20)
      [] OTHER -> Raise("ValueError")

(* str(value).lower() in ['true', 'sim', 's', 'yes', 'y', '1', 'on'] *)
ParseBool(s) == Lower(s) \in {"true", "sim", "s", "yes", "y", "1", "on"}

(* form_data.get(key, default); Absent marks a key the form lacks *)
FormGet(form, key, default) ==
    IF form[key] = Absent THEN default ELSE form[key]

InForm(form, key) == form[key] # Absent

(* re.match(r'^(soja|cana)_(\d+)$', suggested_id): the groups, or no match *)
MatchId(s) ==
    CASE s = "soja_0" -> [match |-> TRUE, type_prefix |-> "soja", id_num |-> 0]
      [] s = "cana_0" -> [match |-> TRUE, type_prefix |-> "cana", id_num |-> 0]
      [] s = "soja_1" -> [match |-> TRUE, type_prefix |-> "soja", id_num |-> 1]
      [] s = "cana_1" -> [match |-> TRUE, type_prefix |-> "cana", id_num |-> 1]
      [] OTHER -> [match |-> FALSE, type_prefix |-> "", id_num |-> 0]

(* an id is a string (suggested by the frontend) or an int (delete marker); *)
(* Python's == between the two is False                                      *)
StrId(s) == [str |-> s]

IntId(n) == [int |-> n]

NoId == [none |-> TRUE]

IsDeleted(item) == Get(item, "deleted", FALSE)

(* ------------------------------------------------------------------ *)
(* MenuController.create_culture (API)                                  *)
(* ------------------------------------------------------------------ *)
(* a variant that reuses the last deleted entry instead of the first *)
ReusedPositionLast(d, suggested_id) ==
    LET anyDeleted == { i \in 1..Len(d) : IsDeleted(d[i]) }
    IN  IF anyDeleted # {}
        THEN CHOOSE x \in anyDeleted : \A y \in anyDeleted : x >= y
        ELSE 0

(* lines 219-244: the position of the deleted entry to reuse, 0 for none *)
(* (positions are 1-based here, Python's index + 1)                      *)
ReusedPosition(d, suggested_id) ==
    LET m == MatchId(suggested_id)
        exact == { i \in 1..Len(d) :
                     /\ IsDeleted(d[i])
                     /\ \/ Get(d[i], "id", NoId) = StrId(suggested_id)
                        \/ (i - 1 = m.id_num /\ Get(d[i], "tipo", "") = m.type_prefix) }
        anyDeleted == { i \in 1..Len(d) : IsDeleted(d[i]) }
        Min(S) == CHOOSE x \in S : \A y \in S : x <= y
    IN  IF suggested_id # Absent /\ Len(d) > 0 /\ m.match /\ exact # {}
        THEN Min(exact)
        ELSE IF anyDeleted # {} THEN Min(anyDeleted) ELSE 0

(* the result of the request: status, the collection afterwards, the      *)
(* position written (0 for none), calls of the statistics engine          *)
(* a variant that has stored an empty entry before it refuses *)
ApiErrorAfterWrite(d) ==
    [ status |-> "error", result_data |-> "null", data |-> Append(d, EmptyDict),
      pos |-> 0, rcalls |-> 0 ]

(* an error return: "data": None, the collection as it was *)
ApiError(d) ==
    [status |-> "error", result_data |-> "null", data |-> d, pos |-> 0, rcalls |-> 0]

MenuCreateCulture(d, form, r) ==
    LET ct == ParseInt(FormGet(form, "culture_type", "0"))
        a == ParseArea(FormGet(form, "area", "0"))
        e == ParseSpacing(FormGet(form, "espacamento", "0"))
        kw == IF ct.v = 1 THEN FormGet(form, "variedade", "convencional")
              ELSE FormGet(form, "ciclo", "medio")
        with_irrigation == ParseBool(FormGet(form, "irrigacao", "false"))
        res == create_culture(ct.v, a.v, e.v, with_irrigation, kw, r)
        suggested_id == form.suggested_id
        culture_data ==
            IF suggested_id # Absent /\ MatchId(suggested_id).match
            THEN Put(res.v, "id", StrId(suggested_id))
            ELSE res.v
        reused_position == ReusedPosition(d, suggested_id)
    IN  IF ct.raised # "None" THEN ApiError(d)
        ELSE IF ct.v \notin {1, 2} THEN ApiError(d)
        ELSE IF a.raised # "None" \/ e.raised # "None" THEN ApiError(d)
        ELSE IF res.raised # "None" THEN ApiError(d)
        ELSE IF reused_position # 0
        THEN [ status |-> "success", result_data |-> "record",
               data |-> [d EXCEPT ![reused_position] = culture_data],
               pos |-> reused_position, rcalls |-> res.rcalls ]
        ELSE [ status |-> "success", result_data |-> "record",
               data |-> Append(d, culture_data),
               pos |-> Len(d) + 1, rcalls |-> res.rcalls ]

(* ------------------------------------------------------------------ *)
(* MenuController.update_culture (API)                                  *)
(* ------------------------------------------------------------------ *)
(* one round of the loop over updateable_fields: the record, whether the *)
(* handler goes on, whether a field was written                          *)
UpdateField(st, form, field, parsed) ==
    IF ~st.go \/ ~InForm(form, field) THEN st
    ELSE IF parsed.raised # "None" THEN [st EXCEPT !.go = FALSE]
    ELSE IF parsed.v <= 0 THEN [st EXCEPT !.go = FALSE]
    ELSE [rec |-> Put(st.rec, field, parsed.v), go |-> TRUE, updated |-> TRUE]

Revalidate(rec, with_irrigation) ==
    IF Get(rec, "tipo", "") = "Soja"
    THEN validate_soybean_parameters(Get(rec, "area", 0), Get(rec, "espacamento", 0),
             Get(rec, "variedade", "convencional"), with_irrigation)
    ELSE validate_sugarcane_parameters(Get(rec, "area", 0), Get(rec, "espacamento", 0),
             Get(rec, "ciclo", "medio"), with_irrigation)

(* lines 461-509: the sub-type of the record's crop, when the form has it *)
UpdateSubType(st, form) ==
    LET culture_type == Get(st.rec, "tipo", "")
        key == IF culture_type = "Soja" THEN "variedade" ELSE "ciclo"
        r1 == Put(st.rec, key, form[key])
    IN  IF ~st.go THEN st
        ELSE IF culture_type \in {"Soja", "Cana-de-Acucar"} /\ InForm(form, key)
        THEN [ rec |-> Put(r1, "recomendacoes",
                           Revalidate(r1, Get(r1, "irrigacao", FALSE))),
               go |-> TRUE, updated |-> TRUE ]
        ELSE st

(* lines 511-540 *)
UpdateIrrigation(st, form) ==
    LET culture_type == Get(st.rec, "tipo", "")
        irrigacao == ParseBool(form.irrigacao)
        r1 == Put(st.rec, "irrigacao", irrigacao)
    IN  IF ~st.go \/ ~InForm(form, "irrigacao") THEN st
        ELSE IF culture_type \in {"Soja", "Cana-de-Acucar"}
        THEN [ rec |-> Put(r1, "recomendacoes", Revalidate(r1, irrigacao)),
               go |-> TRUE, updated |-> TRUE ]
        ELSE [rec |-> r1, go |-> TRUE, updated |-> TRUE]

(* a variant that skips the row count and recomputes the inputs only *)
RecalculateInputsOnly(st, form) ==
    IF ~st.go THEN st
    ELSE IF st.updated /\ (InForm(form, "area") \/ InForm(form, "espacamento"))
    THEN [st EXCEPT !.rec = _calculate_inputs(st.rec)]
    ELSE st

(* lines 542-549; a ValueError of calculate_lines ends the handler *)
Recalculate(st, form) ==
    LET linhas == calculate_lines(st.rec)
    IN  IF ~st.go THEN st
        ELSE IF st.updated /\ (InForm(form, "area") \/ InForm(form, "espacamento"))
        THEN IF Has(st.rec, "linhas_calculadas")
             THEN IF linhas.raised # "None" THEN [st EXCEPT !.go = FALSE]
                  ELSE [st EXCEPT !.rec =
                          _calculate_inputs(Put(st.rec, "linhas_calculadas", linhas.v))]
             ELSE [st EXCEPT !.rec = _calculate_inputs(st.rec)]
        ELSE st

(* a variant that sends the updated record to the statistics engine again *)
UpdateRecordReanalysing(rec, form) ==
    LET s0 == [rec |-> rec, go |-> TRUE, updated |-> FALSE]
        s1 == UpdateField(s0, form, "area", ParseArea(form.area))
        s2 == UpdateField(s1, form, "espacamento", ParseSpacing(form.espacamento))
        s3 == UpdateSubType(s2, form)
        s4 == UpdateIrrigation(s3, form)
        s5 == Recalculate(s4, form)
    IN  [ rec |-> AttachAnalysis(s5.rec,
                                 send_to_r_for_analysis(s5.rec, "json_analysis")),
          status |-> IF ~s5.go THEN "error"
                     ELSE IF s5.updated THEN "success" ELSE "warning",
          rcalls |-> 1 ]

(* the handler on an addressed live record: every write is made in place, *)
(* so what was written before an error return stays written               *)
UpdateRecord(rec, form) ==
    LET s0 == [rec |-> rec, go |-> TRUE, updated |-> FALSE]
        s1 == UpdateField(s0, form, "area", ParseArea(form.area))
        s2 == UpdateField(s1, form, "espacamento", ParseSpacing(form.espacamento))
        s3 == UpdateSubType(s2, form)
        s4 == UpdateIrrigation(s3, form)
        s5 == Recalculate(s4, form)
    IN  [ rec |-> s5.rec,
          status |-> IF ~s5.go THEN "error"
                     ELSE IF s5.updated THEN "success" ELSE "warning",
          rcalls |-> 0 ]

MenuUpdateCulture(d, culture_id, form) ==
    IF ~(0 <= culture_id /\ culture_id < Len(d))
    THEN [status |-> "error", data |-> d, rcalls |-> 0]
    ELSE IF IsDeleted(d[culture_id + 1])
    THEN [status |-> "error", data |-> d, rcalls |-> 0]
    ELSE LET u == UpdateRecord(d[culture_id + 1], form)
         IN  [ status |-> u.status, data |-> [d EXCEPT ![culture_id + 1] = u.rec],
               rcalls |-> u.rcalls ]

(* ------------------------------------------------------------------ *)
(* MenuController.delete_culture and calculate_culture_lines (API)      *)
(* ------------------------------------------------------------------ *)
(* a variant that removes the entry from the list *)
MenuDeleteCultureByRemoval(d, culture_id) ==
    IF ~(0 <= culture_id /\ culture_id < Len(d)) THEN [status |-> "error", data |-> d]
    ELSE [ status |-> "success",
           data |-> SubSeq(d, 1, culture_id) \o SubSeq(d, culture_id + 2, Len(d)) ]

MenuDeleteCulture(d, culture_id) ==
    IF ~(0 <= culture_id /\ culture_id < Len(d)) THEN [status |-> "error", data |-> d]
    ELSE [ status |-> "success",
           data |-> [d EXCEPT ![culture_id + 1] =
                       [ deleted |-> TRUE, id |-> IntId(culture_id),
                         tipo |-> Get(d[culture_id + 1], "tipo", "Desconhecida") ]] ]

MenuCalculateCultureLines(d, culture_id) ==
    IF ~(0 <= culture_id /\ culture_id < Len(d)) THEN [status |-> "error", data |-> d]
    ELSE IF IsDeleted(d[culture_id + 1]) THEN [status |-> "error", data |-> d]
    ELSE LET linhas == calculate_lines(d[culture_id + 1])
         IN  IF linhas.raised # "None" THEN [status |-> "error", data |-> d]
             ELSE [ status |-> "success",
                    data |-> [d EXCEPT ![culture_id + 1] =
                                Put(@, "linhas_calculadas", linhas.v)] ]

(* ------------------------------------------------------------------ *)
(* MenuController.get_cultures, get_culture, get_weather_analysis (API) *)
(* ------------------------------------------------------------------ *)
(* the entries that are not deleted, in the order of the collection *)
MenuGetCultures(d) ==
    LET active_cultures == SelectSeq(d, LAMBDA culture : ~IsDeleted(culture))
    IN  IF Len(d) = 0 \/ Len(active_cultures) = 0
        THEN [status |-> "warning", listed |-> << >>, data |-> d]
        ELSE [status |-> "success", listed |-> active_cultures, data |-> d]

(* a variant without the test of the deleted flag *)
MenuGetCultureOfAnyEntry(d, culture_id) ==
    IF ~(0 <= culture_id /\ culture_id < Len(d)) THEN [status |-> "error", data |-> d]
    ELSE [status |-> "success", data |-> d]

MenuGetCulture(d, culture_id) ==
    IF ~(0 <= culture_id /\ culture_id < Len(d)) THEN [status |-> "error", data |-> d]
    ELSE IF IsDeleted(d[culture_id + 1]) THEN [status |-> "error", data |-> d]
    ELSE [status |-> "success", data |-> d]

(* services.r_integration.get_weather_data: None (EmptyDict) on failure *)
get_weather_data(r) ==
    LET res == _execute_r_script(r)
    IN  IF res.raised # "None" THEN EmptyDict ELSE res.v

(* lines 735-834; the documents of RDocument have no "data" entry, so   *)
(* the recommendations are the basic ones and only the weather script   *)
(* runs (rcalls)                                                        *)
MenuGetWeatherAnalysis(d, culture_id, r) ==
    IF ~(0 <= culture_id /\ culture_id < Len(d))
    THEN [status |-> "error", data |-> d, rcalls |-> 0]
    ELSE IF IsDeleted(d[culture_id + 1])
    THEN [status |-> "error", data |-> d, rcalls |-> 0]
    ELSE IF ~Truthy(get_weather_data(r))
    THEN [status |-> "error", data |-> d, rcalls |-> 1]
    ELSE [status |-> "success", data |-> d, rcalls |-> 1]

(* ------------------------------------------------------------------ *)
(* MenuController: CLI handlers                                         *)
(* ------------------------------------------------------------------ *)
CliResult(status, d) == [status |-> status, data |-> d, rcalls |-> 0]

(* ciclo_options.get(ciclo_choice, "medio") *)
CicloOption(choice) ==
    CASE choice = "1" -> "curto"
      [] choice = "2" -> "medio"
      [] choice = "3" -> "longo"
      [] OTHER -> "medio"

(* _handle_data_input: the answers typed are the fields of inp *)
HandleDataInput(d, inp, r) ==
    LET ct == ParseInt(inp.culture_type)
        a == ParseArea(inp.area)
        e == ParseSpacing(inp.espacamento)
        kw == IF ct.v = 1 THEN inp.variedade ELSE CicloOption(inp.ciclo)
        with_irrigation == Lower(inp.irrigacao) = "s"
        res == create_culture(ct.v, a.v, e.v, with_irrigation, kw, r)
    IN  IF ct.raised # "None" THEN CliResult("error", d)
        ELSE IF ct.v \notin {1, 2} THEN CliResult("error", d)
        ELSE IF a.raised # "None" \/ e.raised # "None" THEN CliResult("error", d)
        ELSE IF res.raised # "None" THEN CliResult("error", d)
        ELSE [status |-> "success", data |-> Append(d, res.v), rcalls |-> res.rcalls]

(* _handle_data_output with the answer 's': rows of the culture idx *)
HandleDataOutput(d, answer, idx_in) ==
    LET idx == ParseInt(idx_in)
        linhas == calculate_lines(d[idx.v + 1])
    IN  IF d = << >> THEN CliResult("warning", d)
        ELSE IF Lower(answer) # "s" THEN CliResult("success", d)
        ELSE IF idx.raised # "None" THEN CliResult("error", d)
        ELSE IF ~(0 <= idx.v /\ idx.v < Len(d)) THEN CliResult("error", d)
        ELSE IF linhas.raised # "None" THEN CliResult("error", d)
        ELSE CliResult("success",
                       [d EXCEPT ![idx.v + 1] = Put(@, "linhas_calculadas", linhas.v)])

(* lines 1393-1453: option 1 (field "area") or 2 (field "espacamento") *)
CliUpdateNumber(rec, field, parsed) ==
    LET r1 == Put(rec, field, parsed.v)
        linhas == calculate_lines(r1)
        r2 == IF Has(r1, "linhas_calculadas")
              THEN Put(r1, "linhas_calculadas", linhas.v) ELSE r1
        r3 == IF Get(r2, "tipo", "") = "Cana-de-Acucar"
              THEN Put(r2, "recomendacoes",
                       validate_sugarcane_parameters(
                           Get(r2, "area", 0), Get(r2, "espacamento", 0),
                           Get(r2, "ciclo", "medio"), Get(r2, "irrigacao", FALSE)))
              ELSE r2
    IN  IF parsed.raised # "None" THEN [status |-> "error", rec |-> rec]
        ELSE IF Has(r1, "linhas_calculadas") /\ linhas.raised # "None"
        THEN [status |-> "error", rec |-> r1]
        ELSE [status |-> "success", rec |-> r3]

(* lines 1456-1519: options 3 and 4, offered for sugarcane *)
CliUpdateCiclo(rec, choice) ==
    LET r1 == Put(rec, "ciclo", CicloOption(choice))
    IN  Put(r1, "recomendacoes",
            validate_sugarcane_parameters(
                Get(r1, "area", 0), Get(r1, "espacamento", 0),
                CicloOption(choice), Get(r1, "irrigacao", FALSE)))

CliToggleIrrigation(rec) ==
    LET new_irrigation == ~Get(rec, "irrigacao", FALSE)
        r1 == Put(rec, "irrigacao", new_irrigation)
    IN  Put(r1, "recomendacoes",
            validate_sugarcane_parameters(
                Get(r1, "area", 0), Get(r1, "espacamento", 0),
                Get(r1, "ciclo", "medio"), new_irrigation))

(* _handle_data_update: index, option and value as typed *)
HandleDataUpdate(d, idx_in, choice_in, value_in) ==
    LET idx == ParseInt(idx_in)
        update_choice == ParseInt(choice_in)
        rec == d[idx.v + 1]
        isCana == Get(rec, "tipo", "") = "Cana-de-Acucar"
        num == IF update_choice.v = 1
               THEN CliUpdateNumber(rec, "area", ParseArea(value_in))
               ELSE CliUpdateNumber(rec, "espacamento", ParseSpacing(value_in))
    IN  IF d = << >> THEN CliResult("warning", d)
        ELSE IF idx.raised # "None" THEN CliResult("error", d)
        ELSE IF ~(0 <= idx.v /\ idx.v < Len(d)) THEN CliResult("error", d)
        ELSE IF update_choice.raised # "None" THEN CliResult("error", d)
        ELSE IF update_choice.v \in {1, 2}
        THEN CliResult(num.status, [d EXCEPT ![idx.v + 1] = num.rec])
        ELSE IF update_choice.v = 3 /\ isCana
        THEN CliResult("success", [d EXCEPT ![idx.v + 1] = CliUpdateCiclo(rec, value_in)])
        ELSE IF update_choice.v = 4 /\ isCana
        THEN CliResult("success", [d EXCEPT ![idx.v + 1] = CliToggleIrrigation(rec)])
        ELSE CliResult("error", d)

(* list.pop(idx) *)
Pop(d, i) == [j \in 1..(Len(d) - 1) |-> IF j < i THEN d[j] ELSE d[j + 1]]

(* _handle_data_deletion *)
HandleDataDeletion(d, idx_in) ==
    LET idx == ParseInt(idx_in)
    IN  IF d = << >> THEN CliResult("warning", d)
        ELSE IF idx.raised # "None" THEN CliResult("error", d)
        ELSE IF idx.v = -1 THEN CliResult("info", d)
        ELSE IF 0 <= idx.v /\ idx.v < Len(d)
        THEN CliResult("success", Pop(d, idx.v + 1))
        ELSE CliResult("error", d)

(* ------------------------------------------------------------------ *)
(* The state machine of one MenuController                              *)
(* ------------------------------------------------------------------ *)
(* the collection holds at most MaxData entries *)
MaxData == 1

(* inputs of the requests (web_api.py) *)
VariedadeInputs == {Absent, "Transgenica"}

CicloInputs == {Absent, "longo"}

SuggestedIds == {Absent}

AllAbsent ==
    [ culture_type |-> Absent, area |-> Absent, espacamento |-> Absent,
      variedade |-> Absent, ciclo |-> Absent, irrigacao |-> Absent,
      suggested_id |-> Absent ]

(* well-formed forms, and forms with one field wrong or missing *)
CreateForms ==
    { f \in [ culture_type : {"1", "2"}, area : {"3", "15"},
              espacamento : {"1.5", "200"},
              variedade : VariedadeInputs, ciclo : CicloInputs,
              irrigacao : {Absent, "true"}, suggested_id : SuggestedIds ] :
        /\ f.culture_type # "1" => f.variedade = Absent
        /\ f.culture_type # "2" => f.ciclo = Absent }
    \cup
    { [AllAbsent EXCEPT !.culture_type = t, !.area = a, !.espacamento = e] :
        <<t, a, e>> \in { <<"3", "15", "1.5">>, <<"abc", "15", "1.5">>,
                          <<Absent, "15", "1.5">>, <<"1", "0", "1.5">>,
                          <<"2", "abc", "1.5">>, <<"2", Absent, "1.5">>,
                          <<"1", "15", "0">>, <<"2", "15", Absent>> } }

NoUpdate ==
    [ area |-> Absent, espacamento |-> Absent, variedade |-> Absent,
      ciclo |-> Absent, irrigacao |-> Absent ]

(* well-formed forms, and forms with a number that is refused *)
(* a request to create and what the statistics engine does on it: every *)
(* form with an engine that answers, one form with an engine that fails  *)
CreateRequests ==
    (CreateForms \X {"json_summary"})
    \cup { << [AllAbsent EXCEPT !.culture_type = "1", !.area = "15",
                                !.espacamento = "1.5"], "timeout" >> }

UpdateForms ==
    { f \in [ area : {Absent, "3", "15"}, espacamento : {Absent, "1.5", "200"},
              variedade : VariedadeInputs, ciclo : CicloInputs,
              irrigacao : {Absent, "true", "false"} ] :
        (f.variedade = Absent) = (f.ciclo = Absent) }
    \cup
    { [NoUpdate EXCEPT !.area = a, !.espacamento = e] :
        <<a, e>> \in { <<"0", "1.5">>, <<"abc", Absent>>,
                       <<Absent, "0">>, <<"15", "0">> } }

(* the requests on a culture: every form on an id the collection can hold, *)
(* one form on an id beyond it                                             *)
UpdateRequests ==
    ((0..(MaxData - 1)) \X UpdateForms)
    \cup { <<MaxData, [NoUpdate EXCEPT !.area = "15"]>> }

(* answers typed at the console (main.py): well-formed answers, and *)
(* answers with one of them refused                                  *)
ConsoleInputs ==
    { f \in [ culture_type : {"1", "2"}, area : {"3", "15"},
              espacamento : {"1.5", "200"},
              variedade : {"", "Transgenica"}, ciclo : {"2", "3"},
              irrigacao : {"s", "n"} ] :
        /\ f.culture_type # "1" => f.variedade = ""
        /\ f.culture_type # "2" => f.ciclo = "2" }
    \cup
    { [ culture_type |-> t, area |-> a, espacamento |-> e,
        variedade |-> "", ciclo |-> "2", irrigacao |-> "n" ] :
        <<t, a, e>> \in { <<"3", "15", "1.5">>, <<"abc", "15", "1.5">>,
                          <<"1", "0", "1.5">>, <<"2", "abc", "1.5">>,
                          <<"1", "15", "0">> } }

ConsoleRequests ==
    (ConsoleInputs \X {"json_summary"})
    \cup { << [ culture_type |-> "1", area |-> "15", espacamento |-> "1.5",
                variedade |-> "", ciclo |-> "2", irrigacao |-> "n" ],
              "timeout" >> }

IdInputs == {"0", "1", "abc"}

(* index, option and value typed to _handle_data_update *)
UpdateAnswers ==
    ({"0"} \X {"1"} \X {"3", "15", "0", "abc"})
    \cup ({"0"} \X {"2"} \X {"1.5", "200", "0"})
    \cup ({"0"} \X {"3"} \X {"1", "3"})
    \cup ({"0"} \X {"4", "abc"} \X {""})
    \cup ({"1", "abc"} \X {"1"} \X {"15"})

(* the fields a request or a menu option addresses *)
FormFields(form) ==
    { k \in {"area", "espacamento", "variedade", "ciclo", "irrigacao"} :
        InForm(form, k) }

ChoiceFields(choice_in) ==
    CASE choice_in = "1" -> {"area"}
      [] choice_in = "2" -> {"espacamento"}
      [] choice_in = "3" -> {"ciclo"}
      [] choice_in = "4" -> {"irrigacao"}
      [] OTHER -> {}

(* int(culture_id) of the route parameter, -1 when it is no number *)
IdOf(id_in) == IF ParseInt(id_in).raised = "None" THEN ParseInt(id_in).v ELSE -1

(* the program starts as the web API (web_api.py) or as the console menu *)
(* (main.py); each builds its own MenuController with an empty collection *)
Init ==
    /\ data = << >>
    /\ last = NoCall
    /\ frontend \in {"web_api", "main"}

ApiCreate(form, r) ==
    /\ frontend = "web_api"
    /\ UNCHANGED frontend
    /\ \E res \in {MenuCreateCulture(data, form, r)} :
           /\ Len(res.data) <= MaxData
           /\ data' = res.data
           /\ last' = [ op |-> "api_create", status |-> res.status,
                        idx |-> res.pos - 1, rcalls |-> res.rcalls,
                        result_data |-> res.result_data ]

ApiUpdate(culture_id, form) ==
    /\ frontend = "web_api"
    /\ UNCHANGED frontend
    /\ \E res \in {MenuUpdateCulture(data, culture_id, form)} :
           /\ data' = res.data
           /\ last' = [ op |-> "api_update", status |-> res.status,
                        idx |-> culture_id, rcalls |-> res.rcalls,
                        fields |-> FormFields(form),
                        result_data |-> IF res.status = "error" THEN "null"
                                        ELSE "record" ]

ApiDelete(culture_id) ==
    /\ frontend = "web_api"
    /\ UNCHANGED frontend
    /\ \E res \in {MenuDeleteCulture(data, culture_id)} :
           /\ data' = res.data
           /\ last' = [ op |-> "api_delete", status |-> res.status,
                        idx |-> culture_id, rcalls |-> 0,
                        result_data |-> IF res.status = "error" THEN "null"
                                        ELSE "removed" ]

ApiCalculateLines(culture_id) ==
    /\ frontend = "web_api"
    /\ UNCHANGED frontend
    /\ \E res \in {MenuCalculateCultureLines(data, culture_id)} :
           /\ data' = res.data
           /\ last' = [ op |-> "api_lines", status |-> res.status,
                        idx |-> culture_id, rcalls |-> 0,
                        result_data |-> IF res.status = "error" THEN "null"
                                        ELSE "lines" ]

CliInput(inp, r) ==
    /\ frontend = "main"
    /\ UNCHANGED frontend
    /\ \E res \in {HandleDataInput(data, inp, r)} :
           /\ Len(res.data) <= MaxData
           /\ data' = res.data
           /\ last' = [ op |-> "cli_input", status |-> res.status,
                        idx |-> IF res.status = "success" THEN Len(data) ELSE -1,
                        rcalls |-> res.rcalls,
                        result_data |-> IF res.status = "error" THEN "null"
                                        ELSE "collection" ]

CliOutput(answer, idx_in) ==
    /\ frontend = "main"
    /\ UNCHANGED frontend
    /\ \E res \in {HandleDataOutput(data, answer, idx_in)} :
           /\ data' = res.data
           /\ last' = [ op |-> "cli_output", status |-> res.status,
                        idx |-> IdOf(idx_in), rcalls |-> 0,
                        result_data |-> "collection" ]

CliUpdate(idx_in, choice_in, value_in) ==
    /\ frontend = "main"
    /\ UNCHANGED frontend
    /\ \E res \in {HandleDataUpdate(data, idx_in, choice_in, value_in)} :
           /\ data' = res.data
           /\ last' = [ op |-> "cli_update", status |-> res.status,
                        idx |-> IdOf(idx_in), rcalls |-> 0,
                        fields |-> ChoiceFields(choice_in),
                        result_data |-> "collection" ]

CliDelete(idx_in) ==
    /\ frontend = "main"
    /\ UNCHANGED frontend
    /\ \E res \in {HandleDataDeletion(data, idx_in)} :
           /\ data' = res.data
           /\ last' = [ op |-> "cli_delete", status |-> res.status,
                        idx |-> IdOf(idx_in), rcalls |-> 0,
                        result_data |-> "collection" ]

(* the routes of web_api.py and the options of the console menu of main.py *)
Next ==
    \/ \E req \in CreateRequests : ApiCreate(req[1], req[2])
    \/ \E req \in UpdateRequests : ApiUpdate(req[1], req[2])
    \/ \E id \in 0..MaxData : ApiDelete(id)
    \/ \E id \in 0..MaxData : ApiCalculateLines(id)
    \/ \E req \in ConsoleRequests : CliInput(req[1], req[2])
    \/ \E idx_in \in IdInputs : CliOutput("s", idx_in)
    \/ \E ans \in UpdateAnswers : CliUpdate(ans[1], ans[2], ans[3])
    \/ \E idx_in \in IdInputs : CliDelete(idx_in)

Spec == Init /\ [][Next]_vars

(* ------------------------------------------------------------------ *)
(* Direct calls of the two validators                                   *)
(* ------------------------------------------------------------------ *)
(* areas in ha around every minimum and maximum of the two tables *)
ValidateAreas == {-2, 0, 4, 5, 9, 10, 11, 19, 20, 21, 100, 101, 300, 301, 100000}

(* spacings in 1/20 m around every minimum and maximum of the two tables *)
ValidateSpacings == {0, 7, 8, 10, 11, 12, 13, 27, 28, 30, 31, 32, 33, 36, 37}

ValidateSubTypes ==
    { PyNone, "", "curto", "medio", "Medio", "longo", "LONGO",
      "convencional", "CONVENCIONAL", "transgenica", "Transgenica", "xyz" }

InitValidate ==
    /\ data = <<>>
    /\ frontend = "library"
    /\ last \in [ op : {"validate_call"}, crop : {"soja", "cana"},
                   area : ValidateAreas, espacamento : ValidateSpacings,
                   sub : ValidateSubTypes, irrigacao : BOOLEAN ]

CallValidateSugarcane ==
    /\ last.op = "validate_call" /\ last.crop = "cana"
    /\ last' = [ op |-> "validate", crop |-> last.crop, area |-> last.area,
                 espacamento |-> last.espacamento, sub |-> last.sub,
                 irrigacao |-> last.irrigacao,
                 report |-> validate_sugarcane_parameters(
                                last.area, last.espacamento, last.sub,
                                last.irrigacao) ]
    /\ UNCHANGED <<data, frontend>>

CallValidateSoybean ==
    /\ last.op = "validate_call" /\ last.crop = "soja"
    /\ last' = [ op |-> "validate", crop |-> last.crop, area |-> last.area,
                 espacamento |-> last.espacamento, sub |-> last.sub,
                 irrigacao |-> last.irrigacao,
                 report |-> validate_soybean_parameters(
                                last.area, last.espacamento, last.sub,
                                last.irrigacao) ]
    /\ UNCHANGED <<data, frontend>>

NextValidate == CallValidateSugarcane \/ CallValidateSoybean

SpecValidate == InitValidate /\ [][NextValidate]_vars

(* ------------------------------------------------------------------ *)
(* Direct calls of calculate_lines_by_strategy                          *)
(* ------------------------------------------------------------------ *)
RowStrategies == {"quadrado", "retangular", "triangular", ""}

(* areas in ha *)
RowAreas == {-2, 0, 1, 3, 15, 50, 150}

(* spacings in 1/20 m: 9 is 0.45 m, 20 is 1.0 m *)
RowSpacings == {-20, 0, 9, 20, 30, 36, 4000}

InitRows ==
    /\ data = <<>>
    /\ frontend = "library"
    /\ last \in [ op : {"rows_call"}, strategy : RowStrategies,
                   area : RowAreas, espacamento : RowSpacings ]

CallCalculateLinesByStrategy ==
    /\ last.op = "rows_call"
    /\ \E res \in { calculate_lines_by_strategy(last.strategy, last.area,
                                                 last.espacamento) } :
           last' = [ op |-> "rows", strategy |-> last.strategy,
                     area |-> last.area, espacamento |-> last.espacamento,
                     raised |-> res.raised, v |-> res.v ]
    /\ UNCHANGED <<data, frontend>>

NextRows == CallCalculateLinesByStrategy

SpecRows == InitRows /\ [][NextRows]_vars

(* ------------------------------------------------------------------ *)
(* CultureController.get_recommendations                                *)
(* ------------------------------------------------------------------ *)
(* values of a decoded JSON document, tagged with their Python type *)
NoneObj == [t |-> "none"]

IntObj(n) == [t |-> "int", n |-> n]

ListObj(l) == [t |-> "list", items |-> l]

DictObj(d) == [t |-> "dict", entries |-> d]

(* bool(x) *)
PyTruth(x) ==
    CASE x.t = "none" -> FALSE
      [] x.t = "int"  -> x.n # 0
      [] x.t = "list" -> Len(x.items) > 0
      [] x.t = "dict" -> DOMAIN x.entries # {}

(* `key in x` is defined on containers; on None or a number it raises *)
CanContain(x) == x.t \in {"list", "dict"}

(* `key in x` for a string key; the lists of the model hold no strings *)
PyContains(key, x) == x.t = "dict" /\ key \in DOMAIN x.entries

(* the analysis entries copied into the weather observation *)
AnalysisKeys ==
    [ temperature |-> "temperature_analysis",
      humidity |-> "humidity_analysis",
      wind |-> "wind_analysis",
      agricultural_impact |-> "agricultural_impact" ]

(* lines 949-959: item assignment on the first observation *)
AddAnalysis(actual, d) ==
    IF ~PyContains("analysis", d) THEN Ok(actual)
    ELSE LET an == d.entries["analysis"]
         IN  IF ~CanContain(an) THEN Raise("TypeError")
             ELSE LET present == { k \in DOMAIN AnalysisKeys : PyContains(k, an) }
                  IN  IF present = {} THEN Ok(actual)
                      ELSE IF actual.t # "dict" THEN Raise("TypeError")
                      ELSE Ok(DictObj(
                               [ k \in { AnalysisKeys[a] : a \in present } |->
                                   an.entries[CHOOSE a \in present : AnalysisKeys[a] = k] ]
                               @@ actual.entries))

(* lines 940-962: the observation taken out of the nested document *)
ExtractWeather(weather_data) ==
    IF ~PyTruth(weather_data) THEN Ok(NoneObj)
    ELSE IF ~CanContain(weather_data) THEN Raise("TypeError")
    ELSE IF ~PyContains("data", weather_data) THEN Ok(NoneObj)
    ELSE LET d == weather_data.entries["data"]
         IN  IF ~CanContain(d) THEN Raise("TypeError")
             ELSE IF ~PyContains("weather", d) THEN Ok(NoneObj)
             ELSE LET w == d.entries["weather"]
                  IN  IF w.t = "list" /\ Len(w.items) > 0
                      THEN AddAnalysis(w.items[1], d)
                      ELSE IF w.t = "dict" THEN Ok(w)
                      ELSE Ok(NoneObj)

(* lines 967-983: the recommendations returned without weather data *)
BasicRecommendations(culture_data) ==
    [ status |-> "warning",
      message |-> "Dados meteorologicos incompletos para recomendacoes detalhadas",
      data |->
        [ summary |->
            [ message |-> "Recomendacoes limitadas devido a falta de dados meteorologicos",
              can_apply_chemicals |-> "None",
              needs_irrigation |-> Get(culture_data, "irrigacao", FALSE),
              ideal_for_fieldwork |-> "None" ],
          basic |->
            [ irrigation |-> "Verificar condicoes locais",
              chemicals_application |-> "Verificar previsao do tempo",
              fieldwork |-> "Planejar atividades de campo" ] ] ]

(* services.r_integration.get_recommendations: None (EmptyDict) when the *)
(* data is refused or the script fails; rcalls counts the runs of the    *)
(* recommendation script                                                 *)
r_integration_get_recommendations(culture_data, weather_data, r) ==
    IF ~_validate_data(culture_data) \/ weather_data.t # "dict"
    THEN [v |-> EmptyDict, rcalls |-> 0]
    ELSE LET res == _execute_r_script(r)
         IN  [ v |-> IF res.raised # "None" THEN EmptyDict ELSE res.v,
               rcalls |-> 1 ]

(* the whole method; every exception is caught and None is returned *)
get_recommendations(culture_data, weather_data, r) ==
    LET actual == ExtractWeather(weather_data)
    IN  IF actual.raised # "None"
        THEN [raised |-> "None", v |-> EmptyDict, rcalls |-> 0]
        ELSE IF ~PyTruth(actual.v)
        THEN [raised |-> "None", v |-> BasicRecommendations(culture_data),
              rcalls |-> 0]
        ELSE LET res == r_integration_get_recommendations(culture_data,
                                                           actual.v, r)
             IN  [raised |-> "None", v |-> res.v, rcalls |-> res.rcalls]

(* one weather observation *)
Observation == DictObj([temp |-> IntObj(20), humidity |-> IntObj(60)])

(* what data.weather may hold *)
WeatherEntries ==
    { NoneObj, IntObj(5), ListObj(<<>>), DictObj(EmptyDict),
      ListObj(<<Observation>>), ListObj(<<NoneObj>>), Observation }

(* what data.analysis may hold *)
AnalysisEntries ==
    { NoneObj, DictObj(EmptyDict), DictObj([temperature |-> IntObj(1)]) }

(* weather documents: None, {}, without "data", "data" null or empty, *)
(* and "data" with a "weather" entry, with or without "analysis"      *)
WeatherDocuments ==
    { NoneObj, DictObj(EmptyDict),
      DictObj([status |-> IntObj(1)]),
      DictObj([data |-> NoneObj]),
      DictObj([data |-> ListObj(<<>>)]),
      DictObj([data |-> DictObj(EmptyDict)]),
      DictObj([data |-> DictObj([analysis |-> DictObj(EmptyDict)])]) }
    \cup { DictObj([data |-> DictObj([weather |-> w])]) : w \in WeatherEntries }
    \cup { DictObj([data |-> DictObj([weather |-> w, analysis |-> a])]) :
               w \in WeatherEntries, a \in AnalysisEntries }

CultureDocuments ==
    { [tipo |-> "Soja", area |-> 15],
      [tipo |-> "Soja", area |-> 15, irrigacao |-> TRUE],
      [tipo |-> "Cana-de-Acucar", area |-> 15, irrigacao |-> FALSE] }

InitRecommend ==
    /\ data = <<>>
    /\ frontend = "library"
    /\ last \in [ op : {"recommend_call"}, culture : CultureDocuments,
                  weather : WeatherDocuments, r : ROutcomes ]

CallGetRecommendations ==
    /\ last.op = "recommend_call"
    /\ \E res \in { get_recommendations(last.culture, last.weather, last.r) } :
           last' = [ op |-> "recommend", culture |-> last.culture,
                     weather |-> last.weather, r |-> last.r,
                     raised |-> res.raised, v |-> res.v,
                     rcalls |-> res.rcalls ]
    /\ UNCHANGED <<data, frontend>>

NextRecommend == CallGetRecommendations

SpecRecommend == InitRecommend /\ [][NextRecommend]_vars

(* ------------------------------------------------------------------ *)
(* The API on a collection of several entries                           *)
(* ------------------------------------------------------------------ *)
(* the collection holds at most MaxSlots entries *)
MaxSlots == 3

(* create forms: one per crop, with or without a suggested id, and one *)
(* that is refused                                                     *)
SlotForms ==
    { [AllAbsent EXCEPT !.culture_type = ct, !.area = "3",
                        !.espacamento = "1.5", !.suggested_id = sid] :
          ct \in {"1", "2"}, sid \in {Absent, "soja_1"} }
    \cup { [AllAbsent EXCEPT !.culture_type = "1", !.area = "0",
                             !.espacamento = "1.5"] }

SlotUpdateForm == [NoUpdate EXCEPT !.area = "3"]

(* outcomes of the weather script *)
WeatherOutcomes == {"timeout", "json_plain"}

InitSlots ==
    /\ data = << >>
    /\ last = NoCall
    /\ frontend = "web_api"

RouteCreate(form) ==
    /\ UNCHANGED frontend
    /\ \E res \in {MenuCreateCulture(data, form, "nonzero_exit")} :
           /\ Len(res.data) <= MaxSlots
           /\ data' = res.data
           /\ last' = [ op |-> "api_create", status |-> res.status,
                        idx |-> res.pos - 1, rcalls |-> res.rcalls,
                        suggested_id |-> form.suggested_id,
                        culture_type |-> form.culture_type,
                        result_data |-> res.result_data ]

RouteUpdate(culture_id) ==
    /\ UNCHANGED frontend
    /\ \E res \in {MenuUpdateCulture(data, culture_id, SlotUpdateForm)} :
           /\ data' = res.data
           /\ last' = [ op |-> "api_update", status |-> res.status,
                        idx |-> culture_id, rcalls |-> res.rcalls,
                        fields |-> FormFields(SlotUpdateForm),
                        result_data |-> IF res.status = "error" THEN "null"
                                        ELSE "record" ]

RouteDelete(culture_id) ==
    /\ UNCHANGED frontend
    /\ \E res \in {MenuDeleteCulture(data, culture_id)} :
           /\ data' = res.data
           /\ last' = [ op |-> "api_delete", status |-> res.status,
                        idx |-> culture_id, rcalls |-> 0,
                        result_data |-> IF res.status = "error" THEN "null"
                                        ELSE "removed" ]

RouteCalculateLines(culture_id) ==
    /\ UNCHANGED frontend
    /\ \E res \in {MenuCalculateCultureLines(data, culture_id)} :
           /\ data' = res.data
           /\ last' = [ op |-> "api_lines", status |-> res.status,
                        idx |-> culture_id, rcalls |-> 0,
                        result_data |-> IF res.status = "error" THEN "null"
                                        ELSE "lines" ]

RouteGetCultures ==
    /\ UNCHANGED frontend
    /\ \E res \in {MenuGetCultures(data)} :
           /\ data' = res.data
           /\ last' = [ op |-> "api_list", status |-> res.status,
                        idx |-> -1, rcalls |-> 0,
                        listed |-> res.listed,
                        result_data |-> "list" ]

RouteGetCulture(culture_id) ==
    /\ UNCHANGED frontend
    /\ \E res \in {MenuGetCulture(data, culture_id)} :
           /\ data' = res.data
           /\ last' = [ op |-> "api_get", status |-> res.status,
                        idx |-> culture_id, rcalls |-> 0,
                        result_data |-> IF res.status = "error" THEN "null"
                                        ELSE "record" ]

RouteWeatherAnalysis(culture_id, r) ==
    /\ UNCHANGED frontend
    /\ \E res \in {MenuGetWeatherAnalysis(data, culture_id, r)} :
           /\ data' = res.data
           /\ last' = [ op |-> "api_weather", status |-> res.status,
                        idx |-> culture_id, rcalls |-> res.rcalls,
                        result_data |-> IF res.status = "error" THEN "null"
                                        ELSE "analysis" ]

NextSlots ==
    \/ \E form \in SlotForms : RouteCreate(form)
    \/ \E id \in 0..MaxSlots : RouteUpdate(id)
    \/ \E id \in 0..MaxSlots : RouteDelete(id)
    \/ \E id \in 0..MaxSlots : RouteCalculateLines(id)
    \/ RouteGetCultures
    \/ \E id \in 0..MaxSlots : RouteGetCulture(id)
    \/ \E id \in 0..MaxSlots, r \in WeatherOutcomes : RouteWeatherAnalysis(id, r)

SpecSlots == InitSlots /\ [][NextSlots]_vars

(* ------------------------------------------------------------------ *)
(* POST /api/cultures/generate                                          *)
(* ------------------------------------------------------------------ *)
(* at most MaxSamples cultures are asked for in one request *)
MaxSamples == 2

(* the random numbers behind one generated culture: lognormvariate(0, 0.5) *)
(* (0 stands for a value close to 0, 3 gives area_max), uniform's position *)
(* between the two spacings (0 or 1), random() < 0.3, the index taken by   *)
(* random.choice and randint(0, 180)                                       *)
RandomDraws ==
    { [lognorm |-> 0, uniform |-> 0, irrigated |-> FALSE, pick |-> 0, days_ago |-> 0],
      [lognorm |-> 3, uniform |-> 1, irrigated |-> TRUE, pick |-> 2, days_ago |-> 180] }

(* random.choice(seq) *)
RandomChoice(seq, pick) == seq[(pick % Len(seq)) + 1]

(* culture['id'] = f"{culture['tipo'].lower()}_{i+1}", i counted from 1 here *)
GeneratedId(tipo, i) == StrId(Lower(tipo) \o "_" \o ToString(i))

(* the id and the planting date the loop adds to a created record *)
StampGenerated(res, i, draw) ==
    IF res.raised # "None" THEN res
    ELSE [res EXCEPT !.v =
             Put(Put(res.v, "id", GeneratedId(res.v.tipo, i)),
                 "data_plantio", draw.days_ago)]

(* one round of the loop over range(num_samples) *)
GenerateOne(culture_type, i, draw, r) ==
    LET area_min == 5
        area_max == IF culture_type = 1 THEN 100 ELSE 50
        espacamento_min == IF culture_type = 1 THEN 8 ELSE 28
        espacamento_max == IF culture_type = 1 THEN 12 ELSE 36
        area == (draw.lognorm * (area_max - area_min)) \div 3 + area_min
        espacamento == espacamento_min
                         + draw.uniform * (espacamento_max - espacamento_min)
        specific_param ==
            IF culture_type = 1
            THEN RandomChoice(<<"convencional", "transgenica">>, draw.pick)
            ELSE RandomChoice(<<"curto", "medio", "longo">>, draw.pick)
    IN  CHOOSE culture \in
            { StampGenerated(res, i, draw) :
                res \in { create_culture(culture_type, area, espacamento,
                                         draw.irrigated, specific_param, r) } } :
            TRUE

(* the result dictionary built from the rounds of the loop, or the first *)
(* exception one of them raised                                          *)
GenerateResult(made, with_statistics) ==
    LET failed == { i \in DOMAIN made : made[i].raised # "None" }
    IN  IF failed # {}
        THEN [raised |-> made[CHOOSE i \in failed : \A j \in failed : i <= j].raised,
              cultures |-> << >>, rcalls |-> 0, statistics |-> FALSE]
        ELSE [raised |-> "None",
              cultures |-> [i \in DOMAIN made |-> made[i].v],
              rcalls |-> Len(made),
              statistics |-> with_statistics]

(* CultureController.generate_random_cultures: the result dictionary, or *)
(* the exception raised; draws[i] feeds sample i                          *)
generate_random_cultures(culture_type, num_samples, with_statistics, draws, r) ==
    IF num_samples <= 0 \/ culture_type \notin {1, 2}
    THEN [raised |-> "ValueError", cultures |-> << >>, rcalls |-> 0,
          statistics |-> FALSE]
    ELSE CHOOSE result \in
             { GenerateResult(made, with_statistics) :
                 made \in { [i \in 1..num_samples |->
                               GenerateOne(culture_type, i, draws[i], r)] } } :
             TRUE

(* the route's loop: a generated culture is appended unless an entry of *)
(* the collection already carries its id                                 *)
RECURSIVE StoreGenerated(_, _)
StoreGenerated(d, cultures) ==
    IF cultures = << >> THEN d
    ELSE LET culture == Head(cultures)
             existing_ids == { d[j].id : j \in { k \in 1..Len(d) : Has(d[k], "id") } }
         IN  IF Get(culture, "id", NoId) \notin existing_ids
             THEN StoreGenerated(Append(d, culture), Tail(cultures))
             ELSE StoreGenerated(d, Tail(cultures))

(* an error response: the collection as it was *)
GenerateRefused(d) ==
    [ status |-> "error", data |-> d, cultures |-> << >>,
      reported |-> 0, rcalls |-> 0, statistics |-> FALSE ]

(* lines 79-91: the cultures of a successful result are stored and the *)
(* message reports their number                                         *)
StoreAndReport(d, result) ==
    IF result.raised # "None" THEN GenerateRefused(d)
    ELSE [ status |-> "success",
           data |-> StoreGenerated(d, result.cultures),
           cultures |-> result.cultures,
           reported |-> Len(result.cultures),
           rcalls |-> result.rcalls,
           statistics |-> result.statistics ]

(* the whole route: status, the collection afterwards, the cultures of *)
(* the response and the number its message reports as stored           *)
RouteGenerateResult(d, form, draws, r) ==
    LET ct == ParseInt(FormGet(form, "culture_type", "0"))
        n == ParseInt(FormGet(form, "num_samples", "10"))
        with_statistics == Lower(FormGet(form, "with_statistics", "true"))
                               \in {"true", "t", "1", "yes", "y"}
    IN  IF ct.raised # "None" THEN GenerateRefused(d)
        ELSE IF ct.v \notin {1, 2} THEN GenerateRefused(d)
        ELSE IF n.raised # "None" THEN GenerateRefused(d)
        ELSE IF n.v <= 0 \/ n.v > 100 THEN GenerateRefused(d)
        ELSE CHOOSE response \in
                 { StoreAndReport(d, result) :
                     result \in { generate_random_cultures(ct.v, n.v,
                                      with_statistics, draws, r) } } :
                 TRUE

GenerateForms ==
    { [culture_type |-> ct, num_samples |-> n,
       with_statistics |-> IF n = "1" THEN Absent ELSE "false"] :
          ct \in {"1", "2"}, n \in {"1", "2"} }
    \cup { [culture_type |-> "3", num_samples |-> "1", with_statistics |-> Absent],
           [culture_type |-> "1", num_samples |-> "0", with_statistics |-> Absent] }

(* a create with the id the frontend suggests for the first soybean field *)
GenerateCreateForms ==
    { [AllAbsent EXCEPT !.culture_type = "1", !.area = "3",
                        !.espacamento = "1.5", !.suggested_id = "soja_1"] }

InitGenerate ==
    /\ data = << >>
    /\ last = NoCall
    /\ frontend = "web_api"

RouteGenerate(form, draws) ==
    /\ UNCHANGED frontend
    /\ \E res \in {RouteGenerateResult(data, form, draws, "nonzero_exit")} :
           /\ Len(res.data) <= MaxSlots
           /\ data' = res.data
           /\ last' = [ op |-> "api_generate", status |-> res.status,
                        idx |-> -1, rcalls |-> res.rcalls,
                        cultures |-> res.cultures,
                        reported |-> res.reported,
                        statistics |-> res.statistics,
                        result_data |-> IF res.status = "error" THEN "null"
                                        ELSE "generated" ]

NextGenerate ==
    \/ \E form \in GenerateForms, draws \in [1..MaxSamples -> RandomDraws] :
           RouteGenerate(form, draws)
    \/ \E form \in GenerateCreateForms : RouteCreate(form)
    \/ \E id \in 0..MaxSlots : RouteDelete(id)

SpecGenerate == InitGenerate /\ [][NextGenerate]_vars

(* ------------------------------------------------------------------ *)
(* Temporary files of the R bridge                                      *)
(* ------------------------------------------------------------------ *)
(* the temporary directory holds at most MaxTempFiles files of the bridge *)
MaxTempFiles == 3

(* _create_temp_file: NamedTemporaryFile(delete=False) creates the file,  *)
(* then json.dump writes it; a value json cannot encode raises ValueError *)
(* and the file stays                                                      *)
_create_temp_file(serialisable) ==
    [ raised |-> IF serialisable THEN "None" ELSE "ValueError", created |-> 1 ]

(* whether the second _execute_r_script removes input_file: every path   *)
(* through its try block does, the check for the script comes before it *)
UnlinksInputFile(r) == r # "script_missing"

(* one call of a bridge function whose input passed (valid) or failed its *)
(* first check: whether it returns None, and the files it leaves behind   *)
BridgeCall(valid, serialisable, r) ==
    LET tmp == _create_temp_file(serialisable)
        res == _execute_r_script(r)
    IN  IF ~valid THEN [none |-> TRUE, left |-> 0]
        ELSE IF tmp.raised # "None" THEN [none |-> TRUE, left |-> tmp.created]
        ELSE [ none |-> res.raised # "None",
               left |-> IF UnlinksInputFile(r) THEN tmp.created - 1
                        ELSE tmp.created ]

SendToRFiles(d, serialisable, r) ==
    BridgeCall(_validate_data(d), serialisable, r)

(* numeric: lat and lon are both int or float *)
GetWeatherDataFiles(numeric, r) ==
    BridgeCall(numeric, TRUE, r)

GetRecommendationsFiles(culture_data, weather_data, serialisable, r) ==
    BridgeCall(_validate_data(culture_data) /\ weather_data.t = "dict",
               serialisable, r)

AnalyzeMultipleCulturesFiles(cultures_data, serialisable, r) ==
    BridgeCall(Len(cultures_data) # 0, serialisable, r)

(* weather arguments of get_recommendations: a dict or not a dict *)
TempWeatherDocuments == {NoneObj, DictObj(EmptyDict)}

TempCultureLists ==
    { << >>, <<[tipo |-> "Soja", area |-> 15]>>,
      <<[tipo |-> "Soja", area |-> 15],
        [tipo |-> "Cana-de-Acucar", area |-> 15, irrigacao |-> FALSE]>> }

BridgeReturn(op, r, res) ==
    [ op |-> op, r |-> r, none |-> res.none, left |-> res.left,
      tmp_files |-> last.tmp_files + res.left ]

InitTemp ==
    /\ data = << >>
    /\ frontend = "library"
    /\ last = [op |-> "r_idle", tmp_files |-> 0]

CallSendToR(d, serialisable, r) ==
    /\ \E res \in {SendToRFiles(d, serialisable, r)} :
           /\ last.tmp_files + res.left <= MaxTempFiles
           /\ last' = BridgeReturn("send_to_r_for_analysis", r, res)
    /\ UNCHANGED <<data, frontend>>

CallGetWeatherData(numeric, r) ==
    /\ \E res \in {GetWeatherDataFiles(numeric, r)} :
           /\ last.tmp_files + res.left <= MaxTempFiles
           /\ last' = BridgeReturn("get_weather_data", r, res)
    /\ UNCHANGED <<data, frontend>>

CallRBridgeRecommendations(culture_data, weather_data, serialisable, r) ==
    /\ \E res \in {GetRecommendationsFiles(culture_data, weather_data,
                                           serialisable, r)} :
           /\ last.tmp_files + res.left <= MaxTempFiles
           /\ last' = BridgeReturn("get_recommendations", r, res)
    /\ UNCHANGED <<data, frontend>>

(* statistical.R is used when it exists, api.R otherwise; the script *)
(* handed to _execute_r_script can be missing only in the second case *)
CallAnalyzeMultipleCultures(cultures_data, serialisable, statistical_exists, r) ==
    /\ statistical_exists => r # "script_missing"
    /\ \E res \in {AnalyzeMultipleCulturesFiles(cultures_data, serialisable, r)} :
           /\ last.tmp_files + res.left <= MaxTempFiles
           /\ last' = BridgeReturn("analyze_multiple_cultures", r, res)
    /\ UNCHANGED <<data, frontend>>

NextTemp ==
    \/ \E d \in CultureDocuments, serialisable \in BOOLEAN, r \in ROutcomes :
           CallSendToR(d, serialisable, r)
    \/ \E numeric \in BOOLEAN, r \in ROutcomes :
           CallGetWeatherData(numeric, r)
    \/ \E culture_data \in CultureDocuments, weather_data \in TempWeatherDocuments,
          serialisable \in BOOLEAN, r \in ROutcomes :
           CallRBridgeRecommendations(culture_data, weather_data, serialisable, r)
    \/ \E cultures_data \in TempCultureLists, serialisable \in BOOLEAN,
          statistical_exists \in BOOLEAN, r \in ROutcomes :
           CallAnalyzeMultipleCultures(cultures_data, serialisable,
                                       statistical_exists, r)

SpecTemp == InitTemp /\ [][NextTemp]_vars

(* ------------------------------------------------------------------ *)
(* Two concurrent POST /api/cultures requests                           *)
(* ------------------------------------------------------------------ *)
(* the server runs each request in a thread of its own on the shared  *)
(* menu_controller; a thread can be preempted between any two steps   *)
Threads == {1, 2}

ConcurrentForms ==
    { [AllAbsent EXCEPT !.culture_type = ct, !.area = "3",
                        !.espacamento = "1.5", !.suggested_id = sid] :
          ct \in {"1", "2"}, sid \in {Absent, "soja_1"} }
    \cup { [AllAbsent EXCEPT !.culture_type = "1", !.area = "0",
                             !.espacamento = "1.5"] }

(* collections earlier creates and deletes have left: empty, one deleted *)
(* entry, a record and a deleted entry, two deleted entries              *)
ConcurrentCollections ==
    LET form == [AllAbsent EXCEPT !.culture_type = "2", !.area = "15",
                                  !.espacamento = "1.5"]
        one == MenuCreateCulture(<< >>, form, "nonzero_exit").data
        two == MenuCreateCulture(one, form, "nonzero_exit").data
    IN  { << >>,
          MenuDeleteCulture(one, 0).data,
          MenuDeleteCulture(two, 1).data,
          MenuDeleteCulture(MenuDeleteCulture(two, 0).data, 1).data }

(* lines 156-215: the record the handler builds from the form, before it *)
(* looks at the collection                                               *)
BuiltCulture(form, r) ==
    LET res == MenuCreateCulture(<< >>, form, r)
    IN  IF res.status = "error"
        THEN [status |-> "error", culture_data |-> EmptyDict, rcalls |-> 0]
        ELSE [status |-> "success", culture_data |-> res.data[1],
              rcalls |-> res.rcalls]

InitConcurrent ==
    /\ frontend = "web_api"
    /\ data \in ConcurrentCollections
    /\ \E forms \in [Threads -> ConcurrentForms] :
           last = [ op |-> "api_create_concurrent",
                    threads |-> [ t \in Threads |->
                        [ pc |-> "request", form |-> forms[t],
                          status |-> "pending", culture_data |-> EmptyDict,
                          reused_position |-> 0, position |-> -1 ] ] ]

(* lines 156-215: parse the form and build the record *)
ThreadBuild(t) ==
    /\ last.op = "api_create_concurrent"
    /\ last.threads[t].pc = "request"
    /\ \E res \in {BuiltCulture(last.threads[t].form, "nonzero_exit")} :
           last' = [last EXCEPT
                      !.threads[t].pc =
                          IF res.status = "error" THEN "done" ELSE "built",
                      !.threads[t].status =
                          IF res.status = "error" THEN "error" ELSE "pending",
                      !.threads[t].culture_data = res.culture_data]
    /\ UNCHANGED <<data, frontend>>

(* lines 219-243: the two loops that look for a deleted entry *)
ThreadSearch(t) ==
    /\ last.op = "api_create_concurrent"
    /\ last.threads[t].pc = "built"
    /\ last' = [last EXCEPT
                  !.threads[t].pc = "searched",
                  !.threads[t].reused_position =
                      ReusedPosition(data, last.threads[t].form.suggested_id)]
    /\ UNCHANGED <<data, frontend>>

(* lines 247-252: the write into the slot found, or the append *)
ThreadWrite(t) ==
    /\ last.op = "api_create_concurrent"
    /\ last.threads[t].pc = "searched"
    /\ IF last.threads[t].reused_position # 0
       THEN /\ data' = [data EXCEPT ![last.threads[t].reused_position] =
                                         last.threads[t].culture_data]
            /\ last' = [last EXCEPT
                          !.threads[t].pc = "done",
                          !.threads[t].status = "success",
                          !.threads[t].position =
                              last.threads[t].reused_position - 1]
       ELSE /\ data' = Append(data, last.threads[t].culture_data)
            /\ last' = [last EXCEPT !.threads[t].pc = "appended"]
    /\ UNCHANGED frontend

(* line 253: position = len(self.data) - 1, then the response *)
ThreadPosition(t) ==
    /\ last.op = "api_create_concurrent"
    /\ last.threads[t].pc = "appended"
    /\ last' = [last EXCEPT
                  !.threads[t].pc = "done",
                  !.threads[t].status = "success",
                  !.threads[t].position = Len(data) - 1]
    /\ UNCHANGED <<data, frontend>>

NextConcurrent ==
    \/ \E t \in Threads : ThreadBuild(t)
    \/ \E t \in Threads : ThreadSearch(t)
    \/ \E t \in Threads : ThreadWrite(t)
    \/ \E t \in Threads : ThreadPosition(t)

SpecConcurrent == InitConcurrent /\ [][NextConcurrent]_vars

(* ------------------------------------------------------------------ *)
(* Properties of CultureController.create_culture (SpecCreate)          *)
(* ------------------------------------------------------------------ *)
Returned == last.op = "create_culture"

ValidCall == last.area > 0 /\ last.espacamento > 0 /\ last.culture_type \in {1, 2}

CoreKeys ==
    {"recomendacoes", "linhas_calculadas", "quantidade_herbicida",
     "quantidade_fertilizante"}

(* C1: create_culture raises ValueError and yields no record exactly when *)
(* area <= 0 or spacing <= 0 or the crop type is neither 1 nor 2; on every *)
(* other input it returns a record.                                        *)
C1_CreateRaisesIffInvalid ==
    Returned =>
        /\ ~ValidCall => last.raised = "ValueError" /\ last.v = EmptyDict
        /\ ValidCall =>
              /\ last.raised = "None"
              /\ CoreKeys \subseteq DOMAIN last.v
              /\ last.v.area = last.area
              /\ last.v.espacamento = last.espacamento

(* a call with area 0 and the other arguments valid was refused *)
C1_Witness ==
    /\ Returned
    /\ last.area = 0 /\ last.espacamento > 0 /\ last.culture_type \in {1, 2}
    /\ last.raised = "ValueError"

(* C3: on valid arguments, whatever way the statistics engine fails (script *)
(* missing, non-zero exit, timeout, output that is no JSON document), the   *)
(* call returns a record with report, row count and totals, and the record  *)
(* has no analise_estatistica.                                              *)
C3_RFailureOmitsEnrichment ==
    (Returned /\ ValidCall /\ last.r \in RFailures) =>
        /\ last.raised = "None"
        /\ CoreKeys \subseteq DOMAIN last.v
        /\ ~Has(last.v, "analise_estatistica")

(* ------------------------------------------------------------------ *)
(* Properties of the stored collection (Spec)                           *)
(* ------------------------------------------------------------------ *)
(* C2: a create request that is refused leaves the collection exactly as *)
(* it was and answers with status 'error' and data null.                 *)
C2_FailedCreateLeavesData ==
    [][ (last'.op = "api_create" /\ last'.status # "success") =>
            /\ data' = data
            /\ last'.status = "error"
            /\ last'.result_data = "null" ]_vars

(* a create request was refused while the collection held a live record *)
C2_Witness ==
    /\ last.op = "api_create" /\ last.status = "error"
    /\ Len(data) = 1 /\ ~IsDeleted(data[1])

(* the live entries of a collection *)
Live(d) == { i \in 1..Len(d) : ~IsDeleted(d[i]) }

(* the step is a successful update (API or console) *)
SuccessfulUpdate ==
    /\ last'.op \in {"api_update", "cli_update"}
    /\ last'.status = "success"

(* the step is a successful create (API or console) *)
SuccessfulCreate ==
    /\ last'.op \in {"api_create", "cli_input"}
    /\ last'.status = "success"

(* the record the step addressed, before and after it *)
Before == data[last'.idx + 1]

After == data'[last'.idx + 1]

SubTypeOf(rec) == IF rec.tipo = "Soja" THEN rec.variedade ELSE rec.ciclo

(* what the validator says of the record's current values *)
ValidatorReport(rec) ==
    IF rec.tipo = "Soja"
    THEN validate_soybean_parameters(rec.area, rec.espacamento, rec.variedade,
                                     rec.irrigacao)
    ELSE validate_sugarcane_parameters(rec.area, rec.espacamento, rec.ciclo,
                                       rec.irrigacao)

StrategyOf(rec) == IF rec.tipo = "Soja" THEN "quadrado" ELSE "retangular"

(* C4: after every successful update (API or console) that changes area, *)
(* spacing, sub-type or irrigation flag, the record's report is the      *)
(* validator's report for the record's current values.                   *)
C4_UpdateRefreshesReport ==
    [][ ( /\ SuccessfulUpdate
          /\ \/ Before.area # After.area
             \/ Before.espacamento # After.espacamento
             \/ SubTypeOf(Before) # SubTypeOf(After)
             \/ Before.irrigacao # After.irrigacao )
        => After.recomendacoes = ValidatorReport(After) ]_vars

(* C5: after a create and after every successful update of area or      *)
(* spacing, the row count is the one the record's strategy (square for  *)
(* soybean, rectangular for sugarcane) gives for the current area and   *)
(* spacing.                                                             *)
C5_RowCountFollowsAreaAndSpacing ==
    [][ ( \/ SuccessfulCreate
          \/ SuccessfulUpdate /\ last'.fields \cap {"area", "espacamento"} # {} )
        => /\ After.strategy = StrategyOf(After)
           /\ After.linhas_calculadas =
                  calculate_lines_by_strategy(StrategyOf(After), After.area,
                                              After.espacamento).v ]_vars

(* an update changed the area of a record and with it the row count *)
C5_Witness ==
    /\ last.op \in {"api_update", "cli_update"} /\ last.status = "success"
    /\ "area" \in last.fields
    /\ data[last.idx + 1].area = 3
    /\ data[last.idx + 1].espacamento = 30
    /\ data[last.idx + 1].linhas_calculadas = 115

(* C6: after a create and after every successful update (API or console) *)
(* that changes the area, the herbicide and fertilizer totals are the    *)
(* current area times the crop's doses.                                  *)
C6_TotalsFollowArea ==
    [][ ( \/ SuccessfulCreate
          \/ SuccessfulUpdate /\ Before.area # After.area )
        => /\ After.quantidade_herbicida = After.area * After.dosagem_herbicida
           /\ After.quantidade_fertilizante = After.area * After.dosagem_fertilizante
           /\ After.dosagem_herbicida = (IF After.tipo = "Soja" THEN 25 ELSE 30)
           /\ After.dosagem_fertilizante = (IF After.tipo = "Soja" THEN 300 ELSE 400)
      ]_vars

(* the enrichment fields of a record *)
Enrichment(rec) == [ k \in EnrichmentKeys \cap DOMAIN rec |-> rec[k] ]

(* C7: no update operation (API update, console update, row calculation) *)
(* calls the statistics engine, and each leaves the enrichment fields of *)
(* every record as they were.                                            *)
C7_UpdatesNeverReanalyse ==
    [][ last'.op \in {"api_update", "cli_update", "api_lines", "cli_output"}
        => /\ last'.rcalls = 0
           /\ Len(data') = Len(data)
           /\ \A i \in 1..Len(data) : Enrichment(data'[i]) = Enrichment(data[i])
      ]_vars

(* a successful update of a record that carries the engine's analysis *)
C7_Witness ==
    /\ last.op \in {"api_update", "cli_update"} /\ last.status = "success"
    /\ Has(data[last.idx + 1], "analise_estatistica")
    /\ Has(data[last.idx + 1], "estatisticas_formatadas")

(* C8: every record that is not deleted has area > 0 and spacing > 0. *)
C8_LiveRecordsPositive ==
    \A i \in Live(data) : data[i].area > 0 /\ data[i].espacamento > 0

(* C9: a record carries consumo_agua only while its irrigation flag is  *)
(* true, and then the value is the current area x 10000 x 0.8.          *)
C9_WaterOnlyWhenIrrigated ==
    \A i \in Live(data) :
        Has(data[i], "consumo_agua") =>
            /\ data[i].irrigacao
            /\ data[i].consumo_agua = (data[i].area * 10000 * 8) \div 10

(* C10: a record carries comprimento_linha and metros_lineares_total only *)
(* while its row count and spacing are positive, and then with the values *)
(* the current area, row count and spacing give.                          *)
C10_RowLengthOnlyWithRows ==
    \A i \in Live(data) :
        LET rec == data[i]
            present == Has(rec, "comprimento_linha") \/ Has(rec, "metros_lineares_total")
            comprimento ==
                (rec.area * 10000 * SpacingScale * LengthScale)
                    \div (rec.linhas_calculadas * rec.espacamento)
        IN  present =>
              /\ rec.linhas_calculadas > 0 /\ rec.espacamento > 0
              /\ Has(rec, "comprimento_linha") /\ Has(rec, "metros_lineares_total")
              /\ rec.comprimento_linha = comprimento
              /\ rec.metros_lineares_total = rec.linhas_calculadas * comprimento

(* the table of the record's crop *)
TableOf(rec) ==
    IF rec.tipo = "Soja" THEN SOYBEAN_RECOMMENDATIONS
    ELSE SUGARCANE_RECOMMENDATIONS

(* C11: the sub-type stored in a record (variedade, ciclo) is always one *)
(* of the recognised keys of the crop's table, and it is the key whose   *)
(* profile the record's report shows.                                    *)
C11_StoredSubTypeRecognised ==
    \A i \in Live(data) :
        /\ SubTypeOf(data[i]) \in DOMAIN TableOf(data[i])
        /\ data[i].recomendacoes.area.recomendado =
               TableOf(data[i])[SubTypeOf(data[i])].area

(* ------------------------------------------------------------------ *)
(* Properties of the validators (SpecValidate)                          *)
(* ------------------------------------------------------------------ *)
Validated == last.op = "validate"

CalledTable ==
    IF last.crop = "soja" THEN SOYBEAN_RECOMMENDATIONS
    ELSE SUGARCANE_RECOMMENDATIONS

CalledDefault == IF last.crop = "soja" THEN "convencional" ELSE "medio"

(* the key the call is about: the default for an empty, null or unknown *)
(* sub-type, the lower-cased sub-type otherwise                         *)
ExpectedKey ==
    IF last.sub \in {"", PyNone} THEN CalledDefault
    ELSE IF Lower(last.sub) \notin DOMAIN CalledTable THEN CalledDefault
    ELSE Lower(last.sub)

(* the validator of the called crop, applied to a given sub-type *)
ValidatorFor(sub) ==
    IF last.crop = "soja"
    THEN validate_soybean_parameters(last.area, last.espacamento, sub,
                                     last.irrigacao)
    ELSE validate_sugarcane_parameters(last.area, last.espacamento, sub,
                                       last.irrigacao)

(* C12: a validator called with an empty, null or unrecognised sub-type  *)
(* returns exactly the report it returns for the crop's default (medio,  *)
(* convencional); called with a recognised key in any letter case it     *)
(* returns the report of the lower-cased key.                            *)
C12_ValidatorNormalisesSubType ==
    Validated =>
        /\ last.report = ValidatorFor(ExpectedKey)
        /\ last.report.espacamento.recomendado = CalledTable[ExpectedKey].espacamento
        /\ last.report.area.recomendado = CalledTable[ExpectedKey].area

(* the sugarcane validator was called with "LONGO" and answered with the *)
(* long-cycle profile                                                    *)
C12_Witness ==
    /\ Validated /\ last.crop = "cana" /\ last.sub = "LONGO"
    /\ last.report.area.recomendado.min = 20
    /\ last.report.espacamento.recomendado.max = 36

(* C13: the spacing status is 'abaixo' exactly when the spacing is below *)
(* the profile's minimum, 'acima' exactly when it is above the maximum   *)
(* and 'adequado' otherwise; a spacing equal to a bound is 'adequado'.   *)
C13_SpacingStatusInclusive ==
    Validated =>
        LET rec == CalledTable[ExpectedKey].espacamento
            status == last.report.espacamento.status
        IN  /\ status \in {"abaixo", "acima", "adequado"}
            /\ status = "abaixo" <=> last.espacamento < rec.min
            /\ status = "acima" <=> last.espacamento > rec.max
            /\ last.espacamento \in {rec.min, rec.max} => status = "adequado"

(* the spacing was exactly the maximum of the profile and was accepted *)
C13_Witness ==
    /\ Validated /\ last.crop = "soja" /\ last.sub = "Transgenica"
    /\ last.espacamento = 12
    /\ last.report.espacamento.status = "adequado"

(* C14: the area status is 'abaixo' exactly when the area is below the   *)
(* profile's minimum, 'acima' exactly when the profile has a maximum and *)
(* the area is above it, and 'adequada' otherwise; the long sugarcane    *)
(* cycle has no maximum and never yields 'acima'.                        *)
C14_AreaStatusUnboundedMax ==
    Validated =>
        LET rec == CalledTable[ExpectedKey].area
            status == last.report.area.status
        IN  /\ status \in {"abaixo", "acima", "adequada"}
            /\ status = "abaixo" <=> last.area < rec.min
            /\ status = "acima" <=> (rec.max # NoMax /\ last.area > rec.max)
            /\ (last.crop = "cana" /\ ExpectedKey = "longo") => status # "acima"

(* a very large area under the long sugarcane cycle was accepted *)
C14_Witness ==
    /\ Validated /\ last.crop = "cana" /\ last.sub = "longo"
    /\ last.area = 100000
    /\ last.report.area.status = "adequada"

(* ------------------------------------------------------------------ *)
(* Properties of calculate_lines_by_strategy (SpecRows)                 *)
(* ------------------------------------------------------------------ *)
RowsReturned == last.op = "rows"

(* the area of the call in m2, in squared spacing units *)
AreaUnits == last.area * 10000 * SpacingScale * SpacingScale

(* r = floor(sqrt(n) / e), said without a square root *)
IsFloorOfRootOver(r, n, e) ==
    /\ r >= 0
    /\ (r * e) * (r * e) <= n
    /\ ((r + 1) * e) * ((r + 1) * e) > n

(* C15: calculate_lines_by_strategy returns an integer and raises no    *)
(* error for every strategy name and every area and spacing, zero and   *)
(* negative values included.                                            *)
C15_RowCountNeverFails ==
    RowsReturned => last.raised = "None"

(* C16: for every area >= 0, an unknown strategy name gives the result  *)
(* of 'quadrado', and a spacing <= 0 gives the result of spacing 1.0    *)
(* under the same strategy.                                             *)
C16_RowCountFallbacks ==
    (RowsReturned /\ last.area >= 0) =>
        /\ last.raised = "None"
        /\ last.strategy \notin {"quadrado", "retangular"} =>
               last.v = calculate_lines_by_strategy(
                            "quadrado", last.area, last.espacamento).v
        /\ last.espacamento <= 0 =>
               last.v = calculate_lines_by_strategy(
                            last.strategy, last.area, 1 * SpacingScale).v

(* an unknown strategy with a negative spacing on 50 ha: 707 rows, the *)
(* side of the square over 1.0 m                                       *)
C16_Witness ==
    /\ RowsReturned /\ last.strategy = "triangular"
    /\ last.area = 50 /\ last.espacamento = -20
    /\ last.v = 707

(* C17: for area > 0 and spacing > 0 the square strategy returns        *)
(* floor(sqrt(area x 10000) / spacing); 50 ha at 0.45 m give 1571.      *)
C17_SquareStrategyFormula ==
    ( /\ RowsReturned /\ last.strategy = "quadrado"
      /\ last.area > 0 /\ last.espacamento > 0 ) =>
        /\ last.raised = "None"
        /\ IsFloorOfRootOver(last.v, AreaUnits, last.espacamento)
        /\ (last.area = 50 /\ last.espacamento = 9) => last.v = 1571

(* the square strategy was applied to 50 ha at 0.45 m *)
C17_Witness ==
    /\ RowsReturned /\ last.strategy = "quadrado"
    /\ last.area = 50 /\ last.espacamento = 9
    /\ last.v = 1571

(* C18: for area > 0 and spacing > 0 the rectangular strategy returns   *)
(* floor(sqrt(area x 10000 / 1.5) / spacing), and it never exceeds the  *)
(* result of the square strategy for the same inputs.                   *)
C18_RectangularStrategyFormula ==
    (RowsReturned /\ last.strategy = "retangular") =>
        /\ (last.area > 0 /\ last.espacamento > 0) =>
               /\ last.raised = "None"
               /\ IsFloorOfRootOver(last.v, (AreaUnits * 2) \div 3,
                                    last.espacamento)
        /\ last.area >= 0 =>
               last.v <= calculate_lines_by_strategy(
                             "quadrado", last.area, last.espacamento).v

(* the rectangular strategy on 50 ha at 0.45 m: 1283 rows, below the *)
(* 1571 of the square strategy                                       *)
C18_Witness ==
    /\ RowsReturned /\ last.strategy = "retangular"
    /\ last.area = 50 /\ last.espacamento = 9
    /\ last.v = 1283

(* ------------------------------------------------------------------ *)
(* Repeated updates (Spec)                                              *)
(* ------------------------------------------------------------------ *)
(* C19: a successful update whose inputs equal the record's current     *)
(* area, spacing, sub-type and irrigation flag leaves linhas_calculadas *)
(* and the herbicide and fertilizer totals exactly as they were.        *)
C19_SameInputsSameResults ==
    [][ ( /\ SuccessfulUpdate
          /\ Before.area = After.area
          /\ Before.espacamento = After.espacamento
          /\ SubTypeOf(Before) = SubTypeOf(After)
          /\ Before.irrigacao = After.irrigacao )
        => /\ After.linhas_calculadas = Before.linhas_calculadas
           /\ After.quantidade_herbicida = Before.quantidade_herbicida
           /\ After.quantidade_fertilizante = Before.quantidade_fertilizante
      ]_vars

(* ------------------------------------------------------------------ *)
(* Properties of get_recommendations (SpecRecommend)                    *)
(* ------------------------------------------------------------------ *)
(* the document has a data.weather entry *)
HasWeatherEntry(wd) ==
    /\ PyContains("data", wd)
    /\ PyContains("weather", wd.entries["data"])

(* the document lacks the expected shape: no data.weather entry, or *)
(* data.weather is an empty list                                    *)
LacksShape(wd) ==
    \/ ~HasWeatherEntry(wd)
    \/ wd.entries["data"].entries["weather"] = ListObj(<<>>)

(* C20: when the weather document has no data.weather entry, or          *)
(* data.weather is an empty list, get_recommendations returns the        *)
(* generic recommendation document with status 'warning', does not run   *)
(* the recommendation engine, and raises nothing.                        *)
C20_NoWeatherGivesBasicRecommendations ==
    (last.op = "recommend" /\ LacksShape(last.weather)) =>
        /\ last.raised = "None"
        /\ last.rcalls = 0
        /\ last.v = BasicRecommendations(last.culture)

(* ------------------------------------------------------------------ *)
(* Order of the steps of create_culture (SpecCreate)                    *)
(* ------------------------------------------------------------------ *)
(* C21: a create calls the statistics engine at most once, and the      *)
(* record the engine receives already holds the report, the row count,  *)
(* the input totals and, with irrigation, the water consumption; a      *)
(* create refused for invalid parameters never calls it.                *)
C21_EngineCalledOnceOnFinishedRecord ==
    Returned =>
        /\ last.rcalls \in {0, 1}
        /\ last.raised = "ValueError" => last.rcalls = 0 /\ last.sent = EmptyDict
        /\ ~ValidCall => last.rcalls = 0
        /\ last.rcalls = 1 =>
              /\ CoreKeys \subseteq DOMAIN last.sent
              /\ last.with_irrigation =>
                     /\ Has(last.sent, "consumo_agua")
                     /\ last.sent.consumo_agua = (last.area * 10000 * 8) \div 10
              /\ last.sent.linhas_calculadas = last.v.linhas_calculadas
              /\ last.sent.recomendacoes = last.v.recomendacoes
              /\ DOMAIN last.sent \cap EnrichmentKeys = {}

(* an irrigated create whose engine call timed out: the engine had been *)
(* given the record with its water consumption                          *)
C21_Witness ==
    /\ Returned /\ ValidCall /\ last.with_irrigation
    /\ last.r = "timeout" /\ last.rcalls = 1
    /\ Has(last.sent, "consumo_agua")

(* ------------------------------------------------------------------ *)
(* Deleted entries and their reuse (SpecSlots)                          *)
(* ------------------------------------------------------------------ *)
(* the step is a request on an index of the collection as it was *)
OnIndex == 0 <= last'.idx /\ last'.idx < Len(data)

(* the deleted entries of a collection *)
Deleted(d) == { i \in 1..Len(d) : IsDeleted(d[i]) }

(* C22: a successful API delete replaces only the addressed entry by a  *)
(* deleted marker: the length is unchanged and every other entry keeps  *)
(* its position and content.                                            *)
C22_DeleteKeepsOtherEntries ==
    [][ (last'.op = "api_delete" /\ last'.status = "success") =>
            /\ OnIndex
            /\ Len(data') = Len(data)
            /\ IsDeleted(data'[last'.idx + 1])
            /\ \A j \in 1..Len(data) :
                   j # last'.idx + 1 => data'[j] = data[j] ]_vars

(* the middle one of three entries was deleted, between two live ones *)
C22_Witness ==
    /\ last.op = "api_delete" /\ last.status = "success" /\ last.idx = 1
    /\ Len(data) = 3
    /\ ~IsDeleted(data[1]) /\ IsDeleted(data[2]) /\ ~IsDeleted(data[3])

(* C23: while an index is marked deleted, get_cultures does not list it, *)
(* and get_culture, update_culture, calculate_culture_lines and          *)
(* get_weather_analysis on it answer 'error' and leave the collection    *)
(* as it was.                                                            *)
C23_DeletedIndexIsGone ==
    [][ /\ ( /\ last'.op \in {"api_get", "api_update", "api_lines", "api_weather"}
             /\ OnIndex
             /\ IsDeleted(data[last'.idx + 1]) )
           => (last'.status = "error" /\ data' = data)
        /\ last'.op = "api_list"
           => /\ data' = data
              /\ \A k \in 1..Len(last'.listed) : ~IsDeleted(last'.listed[k])
              /\ Len(last'.listed) = Cardinality(Live(data)) ]_vars

(* a deleted index between live ones was asked for and refused *)
C23_Witness ==
    /\ last.op = "api_get" /\ last.status = "error" /\ last.idx = 1
    /\ Len(data) = 3
    /\ ~IsDeleted(data[1]) /\ IsDeleted(data[2]) /\ ~IsDeleted(data[3])

CropOfPrefix(type_prefix) ==
    IF type_prefix = "soja" THEN "Soja" ELSE "Cana-de-Acucar"

(* the deleted entries that match a suggested id: same id, or position *)
(* N holding the same crop                                             *)
MatchingSlots(d, suggested_id) ==
    LET m == MatchId(suggested_id)
    IN  { i \in Deleted(d) :
            \/ Get(d[i], "id", NoId) = StrId(suggested_id)
            \/ (i - 1 = m.id_num /\ d[i].tipo = CropOfPrefix(m.type_prefix)) }

(* C25: a create with a suggested id soja_N or cana_N, while a deleted  *)
(* entry matches it, stores the record at that entry's position.        *)
C25_SuggestedIdReusesItsSlot ==
    [][ ( /\ last'.op = "api_create" /\ last'.status = "success"
          /\ last'.suggested_id # Absent
          /\ MatchId(last'.suggested_id).match
          /\ MatchingSlots(data, last'.suggested_id) # {} )
        => (last'.idx + 1) \in MatchingSlots(data, last'.suggested_id) ]_vars

(* C28: an API delete on an index that is already marked deleted answers *)
(* 'error' and leaves the collection as it was.                          *)
C28_DeleteOfDeletedRefused ==
    [][ ( /\ last'.op = "api_delete"
          /\ OnIndex
          /\ IsDeleted(data[last'.idx + 1]) )
        => (last'.status = "error" /\ data' = data) ]_vars

(* ------------------------------------------------------------------ *)
(* Refused updates (Spec)                                               *)
(* ------------------------------------------------------------------ *)
(* C27: an update (API or console) that answers 'error' leaves the      *)
(* addressed record, and with it the collection, exactly as it was.     *)
C27_RefusedUpdateLeavesRecord ==
    [][ ( /\ last'.op \in {"api_update", "cli_update"}
          /\ last'.status = "error" )
        => data' = data ]_vars

(* ------------------------------------------------------------------ *)
(* Properties of POST /api/cultures/generate (SpecGenerate)             *)
(* ------------------------------------------------------------------ *)
(* C26: after every successful generate request, each of the N cultures *)
(* the response reports as generated and stored is an entry of the      *)
(* stored collection, also when the same crop type was generated before *)
C26_GeneratedCulturesAreStored ==
    [][ ( /\ last'.op = "api_generate"
          /\ last'.status = "success" )
        => \A i \in 1..Len(last'.cultures) :
               \E j \in 1..Len(data') : data'[j] = last'.cultures[i] ]_vars

(* ------------------------------------------------------------------ *)
(* Properties of the R bridge's temporary files (SpecTemp)              *)
(* ------------------------------------------------------------------ *)
TempOps ==
    { "send_to_r_for_analysis", "get_weather_data", "get_recommendations",
      "analyze_multiple_cultures" }

(* C30: when a call of send_to_r_for_analysis, get_weather_data,        *)
(* get_recommendations or analyze_multiple_cultures returns, whatever   *)
(* its outcome (the script not found included), the temporary JSON file *)
(* it created is deleted: no more files exist than before the call      *)
C30_TempFileDeletedOnReturn ==
    [][ last'.op \in TempOps => last'.tmp_files = last.tmp_files ]_vars

(* ------------------------------------------------------------------ *)
(* Properties of concurrent creates (SpecConcurrent)                    *)
(* ------------------------------------------------------------------ *)
BothCreated ==
    /\ last.op = "api_create_concurrent"
    /\ \A t \in Threads : /\ last.threads[t].pc = "done"
                          /\ last.threads[t].status = "success"

(* C29: when two concurrent API creates have both succeeded, they report *)
(* two distinct positions and each record is stored at the position its  *)
(* response reports: neither has overwritten the other                   *)
C29_ConcurrentCreatesKeepBoth ==
    BothCreated =>
        /\ last.threads[1].position # last.threads[2].position
        /\ \A t \in Threads :
               /\ last.threads[t].position + 1 \in 1..Len(data)
               /\ data[last.threads[t].position + 1]
                      = last.threads[t].culture_data

====
